---- MODULE Spec2Model ----
(***************************************************************************)
(* A model of the validation core of vee-validate:                         *)
(*   - validate / _validate / _test / validateFieldWithYup                 *)
(*     (packages/vee-validate/src/validate.ts): one validation run over a  *)
(*     rule expression, stepped at its awaits;                             *)
(*   - validateYupSchema / validateObjectSchema (same file): the two       *)
(*     schema-level entry points;                                          *)
(*   - the ValidationProvider of src/components/provider.js: a field, its  *)
(*     flags and messages, and its overlapping validation runs.            *)
(***************************************************************************)
EXTENDS Integers, Sequences, FiniteSets, TLC

\* ------------------------------------------------------------------ bounds
MaxRules == 3
MaxSchemaErrors == 2
MaxFieldRules == 2
MaxRuns == 3

\* ------------------------------------------------------- JavaScript values
\* A value is a pair <<type, id>>; strings returned by rule k are <<"string", k>>
\* (non-empty) and the empty string is <<"string", 0>>.
Undefined == <<"undefined", 0>>
JsTrue == <<"boolean", 1>>
JsFalse == <<"boolean", 0>>
EmptyString == <<"string", 0>>
Str(k) == <<"string", k>>
IsString(v) == v[1] = "string"
Truthy(v) == v \notin {Undefined, JsFalse, EmptyString}

\* ------------------------------------------------------------- variables
VARIABLES
  call,      \* the arguments of validate(value, rules, options) and the configuration
  pc,        \* where the run stands: "called", "loop", "settled"
  idx,       \* the loop index i of _validate (1-based)
  errors,    \* the local errors array of _validate
  invoked,   \* the rules whose validate capability was invoked, in order
  outcome    \* the promise returned by validate: pending, resolved or rejected

\* A schema-level call: validateObjectSchema or validateYupSchema.
VARIABLES
  sCall,     \* the schema, the bail option of the caller, the entry point called
  sPc,       \* "called" or "settled"
  sMode,     \* the mode validation was run in: "abortEarly", "collectAll" ("none" before)
  sOut       \* the promise returned by the entry point

\* A field: one ValidationProvider and its validation runs.
VARIABLES
  value,         \* this.value
  initialValue,  \* this.initialValue
  messages,      \* this.messages, the errors the field shows
  flags,         \* this.flags
  waiting,       \* this._waiting: the run the validate handler waits for (0: null)
  inflight,      \* the runs whose verify promise is pending: run -> its value and origin
  started,       \* how many runs were started; the latest run is run number started
  latestValue,   \* the value the latest run validates
  applied,       \* the run whose result was applied last (0: none since creation or reset)
  origins        \* what started each run so far, in order: "handler", "watcher",
                 \* "direct" or, for validate called with an argument, DirectWith(it)

\* The parameters of one rule and the fields a locator can name.
VARIABLES
  fillParams,    \* rule.params: an array or a mapping of parameter values
  providers,     \* $_veeObserver.refs: each registered field's current value
  fillPc,        \* "called" or "filled"
  filled         \* the parameters the rule's validate capability is invoked with

\* A ValidationObserver (observer.js) and the providers under it.
VARIABLES
  refs,          \* this.refs: vid -> the provider subscribed under it
  fields,        \* every provider's value, flags and messages
  registered,    \* the providers that subscribed and did not unsubscribe since
  runs,          \* the pending validate() calls made on providers
  runCount,      \* how many validate() calls were made on providers so far
  formCall,      \* the observer's validate() reached through ctx.validate().then(handler)
  lastStep       \* the step taken last: a run resolved, the form call settled, or other

\* The field of Provider.ts and of useField.ts shares the field's variables.
VARIABLES
  impl,          \* which of the two the field is: "Provider" or "useField" ("none": neither)
  lastOp,        \* what acted last on that field: "created", "reset", "input",
                 \* "blur", "applied" or "other"
  resetAt        \* the runs up to this number were started before the last reset
                 \* of the field (0: no run in flight is older than a reset)

\* The registry of the providers of a rendering context ($_veeObserver.refs of
\* provider.js and of Provider.ts).
VARIABLES
  regImpl,       \* the file the providers come from: "provider.js" or "Provider.ts" ("none": neither)
  veeRefs,       \* $_veeObserver.refs: identifier -> the provider stored under it (0: no entry)
  provs,         \* provider -> [status, vid (the prop), id (ctx.id, 0 for null), given, name, gen, queued]
  lastReg,       \* the last step of the registry, when it was a re-registration
  counter,       \* PROVIDER_COUNTER
  clash          \* two providers have held one identifier at the same time

\* A form context and the composable useValidateForm.
VARIABLES
  hasForm,       \* a form context is provided in the component tree
  formFields,    \* the fields registered with the form: name -> [value, errors, touched]
  composable,    \* "none", or "created" once useValidateForm() has returned its function
  warnings,      \* the number of warnings logged
  lastCall       \* the last validation call: what it was, what it resolved to, the fields before it

\* One validation run over rules that name a target field.
VARIABLES
  valuesFrom,    \* what the run is given as values: "form.values" (useField.ts) or
                 \* "createValuesLookup" (Provider.ts); "none": no such run
  formData,      \* field.formData, when it is an object made for the run
  rulePos,       \* 0 before the run, k while rule k is next, past the last rule when done
  seen           \* the target's value each rule tested so far was given

\* The debounced validation handler of provider.js.
VARIABLES
  handlerGen,    \* the render whose onValidate the input listens with
  timers,        \* the armed debounce timers: render -> ticks left
  renderQueued,  \* the provider's render is queued
  quiet,         \* ticks since the last trigger
  burst          \* the burst of triggers: [triggers, runs, early]

vvars == <<call, pc, idx, errors, invoked, outcome>>
svars == <<sCall, sPc, sMode, sOut>>
fvars == <<value, initialValue, messages, flags, waiting, inflight, started, latestValue, applied,
           origins>>
lvars == <<fillParams, providers, fillPc, filled>>
mvars == <<impl, lastOp, resetAt>>
ovars == <<refs, fields, registered, runs, runCount, formCall, lastStep>>
cvars == <<valuesFrom, formData, rulePos, seen>>
dvars == <<handlerGen, timers, renderQueued, quiet, burst>>
gvars == <<regImpl, veeRefs, provs, lastReg, counter, clash>>
uvars == <<hasForm, formFields, composable, warnings, lastCall>>
xvars == <<lvars, mvars, ovars, gvars, uvars, cvars, dvars>>
vars == <<vvars, svars, fvars, xvars>>

\* --------------------------------------------------------------- inputs
\* What a rule name of the list stands for: no registered descriptor, or a
\* descriptor whose validate capability returns true, false, a non-empty
\* string, the empty string, or throws (rejects).
RuleBehaviours == {"true", "false", "string", "empty", "throws", "unregistered"}
FunctionBehaviours == RuleBehaviours \ {"unregistered"}
BailOptions == {"true", "false", "unset"}
Null == <<"null", 0>>
EmptyArray == <<"array", 0>>
\* The value under validation: a non-empty string, or one of the values an
\* untouched or cleared input holds.
Values == {Str(1)}
OptionalValues == {EmptyString, Null, Undefined, EmptyArray, JsFalse, Str(1)}

RuleLists(S) == UNION {[1..n -> S] : n \in 0..MaxRules}

\* A schema validator (third party): the messages of its failing tests in
\* order, or a crash with an error that is no ValidationError.
SchemaBehaviours ==
  [fails : UNION {[1..n -> {"e1", "e2", "e3"}] : n \in 0..MaxSchemaErrors}, crash : BOOLEAN]
NoSchema == [fails |-> <<>>, crash |-> FALSE]

\* required: the places of the list whose descriptor is flagged computesRequired.
CallRecord(kind, rules, fn, schema, bails, gen, val) ==
  [kind |-> kind, rules |-> rules, fn |-> fn, schema |-> schema,
   bails |-> bails, gen |-> gen, value |-> val, required |-> {}]

RuleCalls ==
  {CallRecord(k, r, "true", NoSchema, b, g, v) :
     k \in {"string", "mapping"}, r \in RuleLists(RuleBehaviours),
     b \in BailOptions, g \in BOOLEAN, v \in Values}
FunctionCalls ==
  {CallRecord("function", <<>>, f, NoSchema, b, g, v) :
     f \in FunctionBehaviours, b \in BailOptions, g \in BOOLEAN, v \in Values}
SchemaCalls ==
  {CallRecord("schema", <<>>, "true", s, b, TRUE, v) :
     s \in SchemaBehaviours, b \in BailOptions, v \in Values}

\* Calls on a value that may be empty, over registered rules that return true,
\* false or a message for it (min returns false for '', null and undefined:
\* packages/rules/tests/min.spec.ts), some of them required-like.
OptionalCalls ==
  {[CallRecord("string", r, "true", NoSchema, b, TRUE, v) EXCEPT !.required = q] :
     r \in RuleLists({"true", "false", "string"}), q \in SUBSET {1, 2},
     b \in {"true", "false"}, v \in OptionalValues}

\* ------------------------------------------------- collaborators of validate
\* resolveRule(name): whether a descriptor is registered under the name.
ResolveRule(b) == b # "unregistered"

\* normalizeRules(rules): the ordered list of the expression's rules.
NormalizeRules(c) == c.rules

IsYupValidator(c) == c.kind = "schema"
IsCallable(c) == c.kind = "function"

\* getConfig().generateMessage(ctx): a non-empty message for the failed rule.
ConfiguredMessage(k) == <<"string", 100 + k>>

\* What the validate capability of a registered rule returns (awaited).
RuleReturn(b, k) ==
  CASE b = "true" -> JsTrue
    [] b = "false" -> JsFalse
    [] b = "string" -> Str(k)
    [] b = "empty" -> EmptyString

\* schema.validate(value, {abortEarly}) of a schema validator.
YupValidate(s, abortEarly) ==
  IF s.crash THEN [rejected |-> TRUE, name |-> "TypeError", errors |-> <<>>]
  ELSE IF s.fails = <<>> THEN [rejected |-> FALSE, name |-> "", errors |-> <<>>]
  ELSE [rejected |-> TRUE, name |-> "ValidationError",
        errors |-> IF abortEarly THEN <<s.fails[1]>> ELSE s.fails]

\* ------------------------------------------------------------ validate.ts
\* options.bails ?? true
BailsNeverDefault(opt) == opt = "true"
Bails(opt) == IF opt = "unset" THEN TRUE ELSE opt = "true"

FieldIsInvalid == <<"string", 99>>

\* _generateFieldError(ctx)
GenerateFieldError(gen, k) == IF ~gen THEN FieldIsInvalid ELSE ConfiguredMessage(k)

Pending == [status |-> "pending", errors |-> <<>>, valid |-> FALSE, thrown |-> Undefined]
Rejected(e) == [status |-> "rejected", errors |-> <<>>, valid |-> FALSE, thrown |-> e]

\* validate's return: { errors, valid: !errors.length }
ResolvedAlwaysValid(errs) ==
  [status |-> "resolved", errors |-> errs, valid |-> TRUE, thrown |-> Undefined]
Resolved(errs) ==
  [status |-> "resolved", errors |-> errs, valid |-> Len(errs) = 0, thrown |-> Undefined]

NoSuchValidator(k) == <<"Error: No such validator", k>>
RuleError(k) == <<"Error thrown by rule", k>>
SchemaError == <<"TypeError", 0>>

\* _test(field, value, rule): what it throws, or the error it returns.
TestUnknownPasses(c, k) ==
  LET b == c.rules[k] IN
  IF ~ResolveRule(b) THEN [threw |-> FALSE, thrown |-> Undefined, error |-> Undefined]
  ELSE IF b = "throws" THEN [threw |-> TRUE, thrown |-> RuleError(k), error |-> Undefined]
  ELSE LET result == RuleReturn(b, k) IN
       IF IsString(result) THEN [threw |-> FALSE, thrown |-> Undefined, error |-> result]
       ELSE [threw |-> FALSE, thrown |-> Undefined,
             error |-> IF Truthy(result) THEN Undefined ELSE GenerateFieldError(c.gen, k)]
TestCatchesThrow(c, k) ==
  LET b == c.rules[k] IN
  IF ~ResolveRule(b) THEN [threw |-> TRUE, thrown |-> NoSuchValidator(k), error |-> Undefined]
  ELSE IF b = "throws" THEN [threw |-> FALSE, thrown |-> Undefined, error |-> GenerateFieldError(c.gen, k)]
  ELSE LET result == RuleReturn(b, k) IN
       IF IsString(result) THEN [threw |-> FALSE, thrown |-> Undefined, error |-> result]
       ELSE [threw |-> FALSE, thrown |-> Undefined,
             error |-> IF Truthy(result) THEN Undefined ELSE GenerateFieldError(c.gen, k)]
Test(c, k) ==
  LET b == c.rules[k] IN
  IF ~ResolveRule(b) THEN [threw |-> TRUE, thrown |-> NoSuchValidator(k), error |-> Undefined]
  ELSE IF b = "throws" THEN [threw |-> TRUE, thrown |-> RuleError(k), error |-> Undefined]
  ELSE LET result == RuleReturn(b, k) IN
       IF IsString(result) THEN [threw |-> FALSE, thrown |-> Undefined, error |-> result]
       ELSE [threw |-> FALSE, thrown |-> Undefined,
             error |-> IF Truthy(result) THEN Undefined ELSE GenerateFieldError(c.gen, k)]

\* errors.push(result.error)
PushErrorFront(errs, e) == <<e>> \o errs
PushError(errs, e) == Append(errs, e)

\* validateFieldWithYup(value, validator, { bails })
ValidateFieldWithYup(c) ==
  LET r == YupValidate(c.schema, Bails(c.bails)) IN
  IF ~r.rejected THEN Resolved(<<>>)
  ELSE IF r.name = "ValidationError" THEN Resolved([i \in DOMAIN r.errors |-> <<"string", r.errors[i]>>])
  ELSE Rejected(SchemaError)

\* _validate, the generic function path: the function is the whole pipeline.
ValidateWithFunction(c) ==
  IF c.fn = "throws"
    THEN Rejected(RuleError(1))
    ELSE LET result == RuleReturn(c.fn, 1)
             isValid == ~IsString(result) /\ Truthy(result)
             message == IF IsString(result) THEN result ELSE GenerateFieldError(c.gen, 0)
         IN Resolved(IF ~isValid THEN <<message>> ELSE <<>>)

\* _validate, the schema path: validate's promise settles as validateFieldWithYup's.
ValidateSchema ==
  /\ pc = "called"
  /\ IsYupValidator(call)
  /\ outcome' = ValidateFieldWithYup(call)
  /\ pc' = "settled"
  /\ UNCHANGED <<call, idx, errors, invoked, svars, fvars, xvars>>

\* _validate, the generic function path.
ValidateFunction ==
  /\ pc = "called"
  /\ ~IsYupValidator(call)
  /\ IsCallable(call)
  /\ invoked' = <<1>>
  /\ outcome' = ValidateWithFunction(call)
  /\ pc' = "settled"
  /\ UNCHANGED <<call, idx, errors, svars, fvars, xvars>>

\* _validate, the rule list path: normalizeRules, then the loop starts.
StartRules ==
  /\ pc = "called"
  /\ ~IsYupValidator(call)
  /\ ~IsCallable(call)
  /\ pc' = "loop"
  /\ idx' = 1
  /\ errors' = <<>>
  /\ UNCHANGED <<call, invoked, outcome, svars, fvars, xvars>>

\* The body of the loop of _validate for the rule at place k: await
\* _test(...), push the error, return when bails is on.
LoopStepGoesOn(c, k, errs) ==
  LET result == Test(c, k) IN
  IF result.threw
    THEN [done |-> TRUE, outcome |-> Rejected(result.thrown), errors |-> errs]
    ELSE [done |-> FALSE, outcome |-> Pending,
          errors |-> IF Truthy(result.error) THEN PushError(errs, result.error) ELSE errs]
LoopStep(c, k, errs) ==
  LET result == Test(c, k) IN
  IF result.threw
    THEN [done |-> TRUE, outcome |-> Rejected(result.thrown), errors |-> errs]
    ELSE IF Truthy(result.error)
      THEN LET pushed == PushError(errs, result.error) IN
           IF Bails(c.bails)
             THEN [done |-> TRUE, outcome |-> Resolved(pushed), errors |-> pushed]
             ELSE [done |-> FALSE, outcome |-> Pending, errors |-> pushed]
      ELSE [done |-> FALSE, outcome |-> Pending, errors |-> errs]

\* One iteration of the loop of _validate.
TestRule ==
  /\ pc = "loop"
  /\ idx <= Len(NormalizeRules(call))
  /\ LET step == LoopStep(call, idx, errors) IN
     /\ invoked' = IF ResolveRule(call.rules[idx]) THEN Append(invoked, idx) ELSE invoked
     /\ errors' = step.errors
     /\ IF step.done
          THEN outcome' = step.outcome /\ pc' = "settled" /\ UNCHANGED idx
          ELSE idx' = idx + 1 /\ UNCHANGED <<pc, outcome>>
  /\ UNCHANGED <<call, svars, fvars, xvars>>

\* The loop of _validate is over: return { errors }.
FinishRules ==
  /\ pc = "loop"
  /\ idx > Len(NormalizeRules(call))
  /\ outcome' = Resolved(errors)
  /\ pc' = "settled"
  /\ UNCHANGED <<call, idx, errors, invoked, svars, fvars, xvars>>

\* ------------------------------------------- the field (components/provider.js)
FieldValues == {"", "ab", "abcd"}
NoArgument == "(no argument)"

\* createFlags(): the flags of a new field.
CreateFlags ==
  [untouched |-> TRUE, touched |-> FALSE, dirty |-> FALSE, pristine |-> TRUE,
   valid |-> FALSE, invalid |-> FALSE, validated |-> FALSE, pending |-> FALSE,
   changed |-> FALSE]

\* $validator.verify(value, rules, ...): the errors of the field's rules for a
\* value; the field is required and wants three characters or more.
Verify(v) ==
  CASE v = "" -> <<"required">>
    [] v = "ab" -> <<"min">>
    [] OTHER -> <<>>

\* syncValue(e)
SyncValueMarksValidated(f, v) == [f EXCEPT !.changed = (initialValue = v), !.validated = TRUE]
SyncValue(f, v) == [f EXCEPT !.changed = (initialValue = v)]

\* applyResult({ errors }) on the flags, for the current value v.
ApplyResult(f, errs, v) ==
  [f EXCEPT !.valid = (Len(errs) = 0), !.changed = (v # initialValue),
            !.invalid = (Len(errs) # 0), !.validated = TRUE]

\* No field is mounted.
FieldIdle ==
  /\ value = ""
  /\ initialValue = ""
  /\ messages = <<>>
  /\ flags = CreateFlags
  /\ waiting = 0
  /\ inflight = [r \in {} |-> [value |-> "", via |-> "direct"]]
  /\ started = 0
  /\ latestValue = ""
  /\ applied = 0
  /\ origins = <<>>

\* ------------------------ locator parameters (validate.ts, symbols.ts, Provider.ts)
MaxParams == 2

\* The names a locator can carry, and the field values.
TargetNames == {1, 2}
TargetValues == {Str(1), Str(2)}

\* A locator made for target name n: a callable that carries __locatorRef = n.
Locator(n) == <<"locator", n>>
\* The target name itself, as a parameter value.
RawName(n) == <<"name", n>>

ParamValues == TargetValues \cup {Locator(n) : n \in TargetNames}
ParamKeys == <<"p", "q">>

\* rule.params: an array (keys are the indexes) or a mapping (keys are names).
ParamArrays ==
  {[isArray |-> TRUE, keys |-> <<>>, vals |-> v] :
     v \in UNION {[1..n -> ParamValues] : n \in 0..MaxParams}}
ParamMappings ==
  {[isArray |-> FALSE, keys |-> SubSeq(ParamKeys, 1, Len(v)), vals |-> v] :
     v \in UNION {[1..n -> ParamValues] : n \in 0..MaxParams}}

\* The fields registered with the observer: a name of TargetNames -> its value.
Registries == UNION {[S -> TargetValues] : S \in SUBSET TargetNames}

\* isLocator(value)
IsLocator(v) == v[1] = "locator"

\* The locator called with the cross-field values: the value of the named
\* field, and the target name itself when the values do not hold the field.
CallLocator(v, crossTable) ==
  IF v[2] \in DOMAIN crossTable THEN crossTable[v[2]] ELSE RawName(v[2])

\* extractLocators(params).map(dep => dep.__locatorRef), over the rule's parameters.
FieldDeps(params) == {params.vals[i][2] : i \in {j \in DOMAIN params.vals : IsLocator(params.vals[j])}}

\* createValuesLookup(vm): the value of every dependency that is registered.
CreateValuesLookup(deps, observed) == [n \in deps \cap DOMAIN observed |-> observed[n]]

\* normalize, the inner function of fillTargetValues
NormalizeKeepsLocator(v, crossTable) == v
Normalize(v, crossTable) == IF IsLocator(v) THEN CallLocator(v, crossTable) ELSE v

\* Object.keys(params).reduce(...): the mapping's first n entries, normalized.
RECURSIVE FillMapping(_, _, _)
FillMapping(params, crossTable, n) ==
  IF n = 0 THEN <<>>
  ELSE Append(FillMapping(params, crossTable, n - 1), Normalize(params.vals[n], crossTable))

\* fillTargetValues(params, crossTable)
FillTargetValues(params, crossTable) ==
  IF params.isArray
    THEN [params EXCEPT !.vals = [i \in DOMAIN params.vals |-> Normalize(params.vals[i], crossTable)]]
    ELSE [params EXCEPT !.vals = FillMapping(params, crossTable, Len(params.keys))]

\* No rule parameters are being filled.
LocatorIdle ==
  /\ fillParams = [isArray |-> TRUE, keys |-> <<>>, vals |-> <<>>]
  /\ providers = [n \in {} |-> Str(1)]
  /\ fillPc = "idle"
  /\ filled = [isArray |-> TRUE, keys |-> <<>>, vals |-> <<>>]

\* No field of Provider.ts or useField.ts is mounted.
MetaIdle ==
  /\ impl = "none"
  /\ lastOp = "none"
  /\ resetAt = 0

\* --------------------------------------- the observer (components/observer.js)
MaxObserverRuns == 3

\* The providers; the vid of each is its number.
Comps == {1, 2}

\* The flags of a provider that the observer reads.
FlagNames == {"pristine", "dirty", "touched", "untouched", "valid", "invalid", "pending", "validated"}
FlagOrder == <<"pristine", "dirty", "touched", "untouched", "valid", "invalid", "pending", "validated">>

FlagMergingStrategy ==
  [pristine |-> "every", dirty |-> "some", touched |-> "some", untouched |-> "every",
   valid |-> "every", invalid |-> "some", pending |-> "some", validated |-> "every"]

\* mergeFlags(lhs, rhs, strategy): [lhs, rhs][stratName](f => f)
MergeFlagsAlwaysSome(lhs, rhs, strategy) == lhs \/ rhs
MergeFlags(lhs, rhs, strategy) ==
  IF FlagMergingStrategy[strategy] = "every" THEN lhs /\ rhs ELSE lhs \/ rhs

\* A provider as created: the model's value, the flags of createFlags that
\* the observer reads, no messages. Its vid is its number.
NewField(v) ==
  [value |-> v, messages |-> <<>>,
   flags |-> [pristine |-> TRUE, dirty |-> FALSE, touched |-> FALSE, untouched |-> TRUE,
              valid |-> FALSE, invalid |-> FALSE, pending |-> FALSE, validated |-> FALSE]]

\* subscribe(provider): Object.assign({}, this.refs, { [provider.vid]: provider })
Subscribe(r, p) == [v \in DOMAIN r \cup {p} |-> IF v = p THEN p ELSE r[v]]

\* unsubscribe({ vid }): this.$delete(this.refs, vid)
UnsubscribeKeepsEntry(r, vid) == r
Unsubscribe(r, vid) == [v \in DOMAIN r \ {vid} |-> r[v]]

\* values(this.refs): the providers in the enumeration order of the keys
\* (numeric vids, ascending).
RECURSIVE ValuesOf(_, _)
ValuesOf(r, n) ==
  IF n = 0 THEN <<>>
  ELSE IF n \in DOMAIN r THEN Append(ValuesOf(r, n - 1), r[n]) ELSE ValuesOf(r, n - 1)
RefValues(r) == ValuesOf(r, CHOOSE c \in Comps : \A d \in Comps : d <= c)

\* The ctx object before the reduce: no flag, no error.
EmptyCtx == [flags |-> [f \in {} |-> TRUE], errors |-> [v \in {} |-> <<>>]]

\* One step of the reduce of ctx: provider p merged into acc.
MergeProvider(acc, p, fs) ==
  [flags |-> [f \in FlagNames |->
                IF f \notin DOMAIN acc.flags THEN fs[p].flags[f]
                ELSE MergeFlags(acc.flags[f], fs[p].flags[f], f)],
   errors |-> [v \in DOMAIN acc.errors \cup {p} |->
                IF v = p THEN fs[p].messages ELSE acc.errors[v]]]

\* computed ctx(): values(this.refs).reduce(..., ctx), over the first n providers.
RECURSIVE CtxReduce(_, _, _)
CtxReduce(ps, fs, n) ==
  IF n = 0 THEN EmptyCtx ELSE MergeProvider(CtxReduce(ps, fs, n - 1), ps[n], fs)
Ctx(r, fs) == CtxReduce(RefValues(r), fs, Len(RefValues(r)))

NoFormCall ==
  [state |-> "idle", at |-> {}, results |-> [c \in {} |-> <<>>],
   success |-> FALSE, handlerCalled |-> FALSE]
NoRuns == [r \in {} |-> [comp |-> 1, value |-> "", form |-> FALSE]]
OtherStep == [op |-> "other", comp |-> 0, errors |-> <<>>, form |-> FALSE]

\* No observer is in use.
ObserverIdle ==
  /\ refs = [v \in {} |-> 1]
  /\ fields = [c \in {} |-> NewField("")]
  /\ registered = {}
  /\ runs = NoRuns
  /\ runCount = 0
  /\ formCall = NoFormCall
  /\ lastStep = OtherStep

\* ------------------------------------------ the registry of a context
ProvIds == {1, 2}
Vids == {1, 2, 3}
ProviderNames == {1}
RegImplementations == {"provider.js", "Provider.ts"}

\* The identifier that is a field's declared name, and the one extractId
\* generates from the counter; the vid provider.js generates is the counter's
\* number itself.
NameId(n) == 10 + n
VeeId(k) == 20 + k
IdSpace == Vids \cup {NameId(n) : n \in ProviderNames} \cup {VeeId(k) : k \in ProvIds}

\* data(): id is null; the provider does not exist yet. given is the vid its
\* parent gives it and name its name prop (0: none), gen the identifier that
\* was generated for it, queued that its render is queued.
NewProvider ==
  [status |-> "none", vid |-> 0, id |-> 0, given |-> 0, name |-> 0, gen |-> 0, queued |-> FALSE]
NoRefs == [k \in IdSpace |-> 0]
NoReg == [op |-> "other", comp |-> 0, old |-> 0, new |-> 0, had |-> FALSE]

\* $subscribe(ctx) of provider.js stores ctx under ctx.vid; subscribe(vm) of
\* Provider.ts stores vm under vm.id.
RegSubscribe(r, k, c) == [r EXCEPT ![k] = c]

\* delete this.refs[k].
RegUnsubscribe(r, k) == [r EXCEPT ![k] = 0]

\* props.vid of provider.js: the given vid, or by default the counter after
\* PROVIDER_COUNTER++. The vid prop of Provider.ts has no default.
VidProp(v, ctr) == IF regImpl = "provider.js" /\ v = 0 THEN ctr + 1 ELSE v

\* extractId(vm): the vid, else the name, else the id it has, else a new one
\* from the counter.
ExtractId(p, ctr) ==
  IF p.vid # 0 THEN p.vid
  ELSE IF p.name # 0 THEN NameId(p.name)
  ELSE IF p.id # 0 THEN p.id
  ELSE VeeId(ctr + 1)

\* extractId, PROVIDER_COUNTER++: whether the call takes a new identifier.
Generates(p) == p.vid = 0 /\ p.name = 0 /\ p.id = 0

\* updateRenderingContextRefs of provider.js: the registry after it. The entry
\* it deletes when the vid changed is the one under ctx.vid, the new vid.
UpdateRefsJs(r, c, p) ==
  IF p.id = p.vid /\ r[p.id] # 0 THEN r
  ELSE LET r1 == IF p.id # 0 /\ p.id # p.vid /\ r[p.id] = c THEN RegUnsubscribe(r, p.vid) ELSE r
       IN  RegSubscribe(r1, p.vid, c)

\* updateRenderingContextRefs of Provider.ts: the registry after it.
UpdateRefsTs(r, c, p, ctr) ==
  LET providedId == ExtractId(p, ctr) IN
  IF p.status = "inactive" \/ (p.id = providedId /\ r[p.id] # 0) THEN r
  ELSE LET r1 == IF p.id # 0 /\ p.id # providedId /\ r[p.id] = c THEN RegUnsubscribe(r, p.id) ELSE r
       IN  RegSubscribe(r1, providedId, c)

\* ctx.id after updateRenderingContextRefs.
UpdateId(r, p, ctr) ==
  IF regImpl = "Provider.ts"
    THEN IF p.status = "inactive" \/ (p.id = ExtractId(p, ctr) /\ r[p.id] # 0)
           THEN p.id ELSE ExtractId(p, ctr)
    ELSE IF p.id = p.vid /\ r[p.id] # 0 THEN p.id ELSE p.vid

\* No registry is in use.
RegistryIdle ==
  /\ regImpl = "none"
  /\ veeRefs = NoRefs
  /\ provs = [c \in ProvIds |-> NewProvider]
  /\ lastReg = NoReg
  /\ counter = 0
  /\ clash = FALSE

\* --------------------------------------------- validating without a form
FieldNames == {1, 2}
NoFields == [n \in {} |-> [value |-> "", errors |-> <<>>, touched |-> FALSE]]
NoCall == [op |-> "none", names |-> {}, warned |-> FALSE, valid |-> TRUE, errors |-> <<>>,
           before |-> NoFields]

\* No form and no composable is in use.
FormIdle ==
  /\ hasForm = FALSE
  /\ formFields = NoFields
  /\ composable = "none"
  /\ warnings = 0
  /\ lastCall = NoCall

\* ------------------------------------ the values a run's rules are given
MaxTargetRules == 2
NoFormData == [n \in {} |-> Str(1)]

\* No such run is modelled.
SnapshotIdle ==
  /\ valuesFrom = "none"
  /\ formData = NoFormData
  /\ rulePos = 0
  /\ seen = <<>>

\* ------------------------------------------- the debounced handler
Delay == 2
MaxTriggers == 3
NoTimers == [g \in {} |-> 0]
NoBurst == [triggers |-> 0, runs |-> 0, early |-> FALSE]

\* No debounced handler is modelled.
DebounceIdle ==
  /\ handlerGen = 0
  /\ timers = NoTimers
  /\ renderQueued = FALSE
  /\ quiet = 0
  /\ burst = NoBurst

LaterIdle == SnapshotIdle /\ DebounceIdle

ExtrasIdle == LocatorIdle /\ MetaIdle /\ ObserverIdle /\ RegistryIdle /\ FormIdle /\ LaterIdle

\* The loop of _validate from place k on, run to its end.
RECURSIVE RunLoop(_, _, _)
RunLoop(c, k, errs) ==
  IF k > Len(NormalizeRules(c)) THEN Resolved(errs)
  ELSE LET step == LoopStep(c, k, errs) IN
       IF step.done THEN step.outcome ELSE RunLoop(c, k + 1, step.errors)

\* validate(value, rules, options), awaited: how its promise settles.
Validate(c) ==
  IF IsYupValidator(c) THEN ValidateFieldWithYup(c)
  ELSE IF IsCallable(c) THEN ValidateWithFunction(c)
  ELSE RunLoop(c, 1, <<>>)

\* ------------------------------------------------- schema-level entry points
Paths == {"a", "b"}
PathOrder == <<"a", "b">>
PathNo(p) == IF p = "a" THEN 1 ELSE 2
\* The message of the j-th failing test of path p of a schema validator.
SchemaMessage(p, j) == <<"string", 10 * PathNo(p) + j>>

FieldRuleLists == UNION {[1..n -> {"true", "false", "string", "throws"}] : n \in 0..MaxFieldRules}

\* entry "object": a mapping path -> rule expression (rules[p]);
\* entry "yup": a schema validator with fails[p] failing tests on path p, that
\* may crash, and whose ValidationError carries its inner list or none.
ObjectSchemaCalls ==
  {[entry |-> "object", bails |-> b, rules |-> r, fails |-> [p \in Paths |-> 0],
    crash |-> FALSE, inner |-> "list"] :
     b \in BailOptions, r \in [Paths -> FieldRuleLists]}
YupSchemaCalls ==
  {[entry |-> "yup", bails |-> b, rules |-> [p \in Paths |-> <<>>], fails |-> f,
    crash |-> c, inner |-> i] :
     b \in BailOptions, f \in [Paths -> 0..MaxSchemaErrors], c \in BOOLEAN,
     i \in {"list", "none"}}
NoSchemaCall ==
  [entry |-> "none", bails |-> "unset", rules |-> [p \in Paths |-> <<>>],
   fails |-> [p \in Paths |-> 0], crash |-> FALSE, inner |-> "list"]

NoResults == [p \in {} |-> [valid |-> TRUE, errors |-> <<>>]]
NoSchemaResult == [status |-> "pending", valid |-> FALSE, results |-> NoResults, thrown |-> Undefined]
SchemaRejected(e) == [status |-> "rejected", valid |-> FALSE, results |-> NoResults, thrown |-> e]
SchemaResolved(v, r) == [status |-> "resolved", valid |-> v, results |-> r, thrown |-> Undefined]

\* The failing tests of path p as yup reports them with abortEarly false: one
\* inner error per failing test, each with its path and its one message.
InnerOf(c, p) == [j \in 1..c.fails[p] |-> [path |-> p, errors |-> <<SchemaMessage(p, j)>>]]

\* schema.validate(values, {abortEarly}) of a schema validator over the form.
YupSchemaValidate(c, abortEarly) ==
  LET all == InnerOf(c, PathOrder[1]) \o InnerOf(c, PathOrder[2])
      shown == IF abortEarly /\ all # <<>> THEN <<all[1]>> ELSE all
  IN IF c.crash
       THEN [rejected |-> TRUE, name |-> "TypeError", errors |-> <<>>, inner |-> <<>>]
       ELSE IF all = <<>>
         THEN [rejected |-> FALSE, name |-> "", errors |-> <<>>, inner |-> <<>>]
         ELSE [rejected |-> TRUE, name |-> "ValidationError",
               errors |-> [i \in DOMAIN shown |-> shown[i].errors[1]],
               inner |-> IF c.inner = "list" THEN shown ELSE <<>>]

\* acc[err.path] = { valid: !messages.length, errors: messages }
SetResult(acc, path, errs) ==
  [p \in DOMAIN acc \cup {path} |->
     IF p = path THEN [valid |-> Len(errs) = 0, errors |-> errs] ELSE acc[p]]

\* errors.reduce(...) of validateYupSchema over the first n inner errors.
RECURSIVE ReduceInner(_, _)
ReduceInner(inner, n) ==
  IF n = 0 THEN NoResults
  ELSE SetResult(ReduceInner(inner, n - 1), inner[n].path, inner[n].errors)

\* validateYupSchema(schema, values): always { abortEarly: false }.
ValidateYupSchema ==
  /\ sPc = "called"
  /\ sCall.entry = "yup"
  /\ sMode' = "collectAll"
  /\ LET r == YupSchemaValidate(sCall, FALSE) IN
     IF r.rejected /\ r.name # "ValidationError"
       THEN sOut' = SchemaRejected(SchemaError)
       ELSE LET errs == IF r.rejected THEN r.inner ELSE <<>>
            IN sOut' = SchemaResolved(Len(errs) = 0, ReduceInner(errs, Len(errs)))
  /\ sPc' = "settled"
  /\ UNCHANGED <<sCall, vvars, fvars, xvars>>

\* The call validateObjectSchema makes for path p: bails: opts?.bails ?? true.
FieldCall(c, p) ==
  CallRecord("string", c.rules[p], "true", NoSchema,
             IF Bails(c.bails) THEN "true" ELSE "false", TRUE, Str(1))

\* validateObjectSchema(schema, values, opts): one validate per path, then
\* Promise.all and the reduce; a rejected validate rejects the whole call.
ValidateObjectSchema ==
  /\ sPc = "called"
  /\ sCall.entry = "object"
  /\ sMode' = IF Bails(sCall.bails) THEN "abortEarly" ELSE "collectAll"
  /\ LET res == [p \in Paths |-> Validate(FieldCall(sCall, p))]
         failed == {p \in Paths : res[p].status = "rejected"}
     IN IF failed # {}
          THEN \E p \in failed : sOut' = SchemaRejected(res[p].thrown)
          ELSE sOut' = SchemaResolved(
                  \A p \in Paths : res[p].valid,
                  [p \in Paths |-> [valid |-> res[p].valid, errors |-> res[p].errors]])
  /\ sPc' = "settled"
  /\ UNCHANGED <<sCall, vvars, fvars, xvars>>

\* No validate call is under way.
ValidateIdle ==
  /\ call = CallRecord("none", <<>>, "true", NoSchema, "unset", TRUE, Str(1))
  /\ pc = "idle"
  /\ idx = 0
  /\ errors = <<>>
  /\ invoked = <<>>
  /\ outcome = Pending

InitSchema ==
  /\ ValidateIdle
  /\ FieldIdle
  /\ ExtrasIdle
  /\ sCall \in ObjectSchemaCalls \cup YupSchemaCalls
  /\ sPc = "called"
  /\ sMode = "none"
  /\ sOut = NoSchemaResult

NextSchema == ValidateYupSchema \/ ValidateObjectSchema

SpecSchema == InitSchema /\ [][NextSchema]_vars

\* No schema-level call is under way.
SchemaIdle ==
  /\ sCall = NoSchemaCall
  /\ sPc = "idle"
  /\ sMode = "none"
  /\ sOut = NoSchemaResult

\* ------------------------------------------- the field: events and runs
\* data(): the field after construction, holding the model's value.
Init ==
  /\ ValidateIdle
  /\ SchemaIdle
  /\ ExtrasIdle
  /\ value \in FieldValues
  /\ initialValue = value
  /\ messages = <<>>
  /\ flags = CreateFlags
  /\ waiting = 0
  /\ inflight = [r \in {} |-> [value |-> "", via |-> "direct"]]
  /\ started = 0
  /\ latestValue = value
  /\ applied = 0
  /\ origins = <<>>

\* onInput(e): syncValue, then the dirty and pristine flags.
OnInput(v) ==
  /\ value' = v
  /\ flags' = [SyncValue(flags, v) EXCEPT !.dirty = TRUE, !.pristine = FALSE]
  /\ UNCHANGED <<initialValue, messages, waiting, inflight, started, latestValue, applied, origins>>
  /\ UNCHANGED <<vvars, svars, xvars>>

\* onBlur()
OnBlur ==
  /\ flags' = [flags EXCEPT !.touched = TRUE, !.untouched = FALSE]
  /\ UNCHANGED <<value, initialValue, messages, waiting, inflight, started, latestValue, applied, origins>>
  /\ UNCHANGED <<vvars, svars, xvars>>

\* validateSilent(), up to its pending verify promise: run number started + 1.
StartRun(v, via) ==
  /\ started < MaxRuns
  /\ started' = started + 1
  /\ inflight' = [r \in DOMAIN inflight \cup {started + 1} |->
                    IF r = started + 1 THEN [value |-> v, via |-> via] ELSE inflight[r]]
  /\ latestValue' = v
  /\ origins' = Append(origins, via)

\* onValidate(): ctx.validate() with no argument, remembered in ctx._waiting.
OnValidate ==
  /\ StartRun(value, "handler")
  /\ flags' = [flags EXCEPT !.pending = TRUE]
  /\ waiting' = started + 1
  /\ UNCHANGED <<value, initialValue, messages, applied>>
  /\ UNCHANGED <<vvars, svars, xvars>>

\* What started a run that validate(arg) started.
DirectWith(arg) ==
  CASE arg = NoArgument -> "direct"
    [] arg = "" -> "direct with ''"
    [] arg = "ab" -> "direct with 'ab'"
    [] arg = "abcd" -> "direct with 'abcd'"

\* validate(...args) called on the field itself (the slot's validate, the
\* observer, a watcher of a target field): if (args[0]) syncValue(args[0]).
ValidateCalled(arg) ==
  LET synced == arg # NoArgument /\ arg # ""
      v == IF synced THEN arg ELSE value
  IN /\ StartRun(v, DirectWith(arg))
     /\ value' = v
     /\ flags' = [(IF synced THEN SyncValue(flags, v) ELSE flags) EXCEPT !.pending = TRUE]
     /\ UNCHANGED <<initialValue, messages, waiting, applied>>
     /\ UNCHANGED <<vvars, svars, xvars>>

\* The watcher fieldDeps puts on a target field's value: this.validate().
TargetChanged ==
  /\ StartRun(value, "watcher")
  /\ flags' = [flags EXCEPT !.pending = TRUE]
  /\ UNCHANGED <<value, initialValue, messages, waiting, applied>>
  /\ UNCHANGED <<vvars, svars, xvars>>

\* The verify promise of run r resolves: validateSilent's then clears pending,
\* validate's then applies the result, and for a run of the handler its then
\* applies it again when the run is still the one in _waiting.
ResolveRun(r) ==
  /\ r \in DOMAIN inflight
  /\ LET errs == Verify(inflight[r].value) IN
     /\ messages' = errs
     /\ flags' = ApplyResult([flags EXCEPT !.pending = FALSE], errs, value)
  /\ waiting' = IF inflight[r].via = "handler" /\ waiting = r THEN 0 ELSE waiting
  /\ inflight' = [q \in DOMAIN inflight \ {r} |-> inflight[q]]
  /\ applied' = r
  /\ UNCHANGED <<value, initialValue, started, latestValue, origins>>
  /\ UNCHANGED <<vvars, svars, xvars>>

\* reset()
Reset ==
  /\ messages' = <<>>
  /\ waiting' = 0
  /\ initialValue' = value
  /\ flags' = CreateFlags
  /\ applied' = 0
  /\ UNCHANGED <<value, inflight, started, latestValue, origins>>
  /\ UNCHANGED <<vvars, svars, xvars>>

Next ==
  \/ \E v \in FieldValues : OnInput(v)
  \/ OnBlur
  \/ OnValidate
  \/ \E a \in FieldValues \cup {NoArgument} : ValidateCalled(a)
  \/ TargetChanged
  \/ \E r \in 1..MaxRuns : ResolveRun(r)
  \/ Reset

Spec == Init /\ [][Next]_vars

InitValidate ==
  /\ SchemaIdle
  /\ FieldIdle
  /\ ExtrasIdle
  /\ call \in RuleCalls \cup FunctionCalls \cup SchemaCalls
  /\ pc = "called"
  /\ idx = 0
  /\ errors = <<>>
  /\ invoked = <<>>
  /\ outcome = Pending

InitOptional ==
  /\ SchemaIdle
  /\ FieldIdle
  /\ ExtrasIdle
  /\ call \in {c \in OptionalCalls : c.required \subseteq DOMAIN c.rules}
  /\ pc = "called"
  /\ idx = 0
  /\ errors = <<>>
  /\ invoked = <<>>
  /\ outcome = Pending

NextValidate == ValidateSchema \/ ValidateFunction \/ StartRules \/ TestRule \/ FinishRules

NextOptional == StartRules \/ TestRule \/ FinishRules

SpecValidate == InitValidate /\ [][NextValidate]_vars
SpecOptional == InitOptional /\ [][NextOptional]_vars

\* ------------------------------------------- filling a rule's parameters
InitLocator ==
  /\ LaterIdle
  /\ ValidateIdle
  /\ SchemaIdle
  /\ FieldIdle
  /\ fillParams \in ParamArrays \cup ParamMappings
  /\ providers \in Registries
  /\ fillPc = "called"
  /\ filled = [isArray |-> TRUE, keys |-> <<>>, vals |-> <<>>]
  /\ MetaIdle
  /\ ObserverIdle
  /\ RegistryIdle
  /\ FormIdle

\* syncValue(v) of a registered target field, before the run reads it.
TargetSyncValue(n, v) ==
  /\ fillPc = "called"
  /\ n \in DOMAIN providers
  /\ providers' = [providers EXCEPT ![n] = v]
  /\ UNCHANGED <<fillParams, fillPc, filled, vvars, svars, fvars, mvars, ovars, gvars, uvars, cvars, dvars>>

\* validateSilent passes createValuesLookup(this) as the values of the run and
\* _test fills the rule's parameters from them before the rule is invoked.
FillParams ==
  /\ fillPc = "called"
  /\ filled' = FillTargetValues(fillParams, CreateValuesLookup(FieldDeps(fillParams), providers))
  /\ fillPc' = "filled"
  /\ UNCHANGED <<fillParams, providers, vvars, svars, fvars, mvars, ovars, gvars, uvars, cvars, dvars>>

NextLocator ==
  \/ \E n \in TargetNames, v \in TargetValues : TargetSyncValue(n, v)
  \/ FillParams

SpecLocator == InitLocator /\ [][NextLocator]_vars


\* ----------------- the field of Provider.ts and the field of useField.ts
Implementations == {"Provider", "useField"}

\* The fields of this part: those two and the provider of provider.js.
FieldKinds == Implementations \cup {"provider.js"}

\* The values of this field: one that fails its rules and one that passes.
MetaValues == {"", "abcd"}

\* createFlags(), with flags.required as isRequired sets it (the field's rules
\* hold a required rule).
ProviderFlags ==
  [untouched |-> TRUE, touched |-> FALSE, dirty |-> FALSE, pristine |-> TRUE,
   valid |-> FALSE, invalid |-> FALSE, validated |-> FALSE, pending |-> FALSE,
   required |-> TRUE, changed |-> FALSE, passed |-> FALSE, failed |-> FALSE]

\* useMeta: initialMeta()
InitialMeta ==
  [untouched |-> TRUE, touched |-> FALSE, dirty |-> FALSE, pristine |-> TRUE,
   valid |-> FALSE, invalid |-> FALSE, validated |-> FALSE, pending |-> FALSE,
   changed |-> FALSE, passed |-> FALSE, failed |-> FALSE]

\* useMeta: the watchEffect that computes passed and failed; it runs before
\* the next render, so no reader sees the meta without it.
WatchMeta(f) ==
  [f EXCEPT !.passed = (f.valid /\ f.validated), !.failed = (f.invalid /\ f.validated)]

\* useMeta: reset() sets every flag but passed and failed to its default.
ResetMetaKeepsValidated(f) == WatchMeta([InitialMeta EXCEPT !.validated = f.validated])
ResetMeta(f) == WatchMeta([InitialMeta EXCEPT !.passed = f.passed, !.failed = f.failed])

\* Provider.ts: syncValue(v)
ProviderSyncValue(f, v) == [f EXCEPT !.changed = (initialValue # v)]

\* Provider.ts: the setFlags call that ends validateSilent.
ValidateSilentFlagsKeepsInvalid(f, errs) ==
  [f EXCEPT !.pending = FALSE, !.valid = (Len(errs) = 0)]
ValidateSilentFlags(f, errs) ==
  [f EXCEPT !.pending = FALSE, !.valid = (Len(errs) = 0), !.invalid = (Len(errs) # 0)]

\* Provider.ts: applyResult({ errors }), on the flags.
ProviderApplyResult(f, errs, v) ==
  [f EXCEPT !.valid = (Len(errs) = 0), !.passed = (Len(errs) = 0),
            !.invalid = (Len(errs) # 0), !.failed = (Len(errs) # 0),
            !.validated = TRUE, !.changed = (v # initialValue)]

\* useField.ts: the end of runValidation.
RunValidationFlagsMarksValidated(f, errs) ==
  WatchMeta([f EXCEPT !.valid = (Len(errs) = 0), !.invalid = (Len(errs) # 0), !.pending = FALSE,
                      !.validated = TRUE])
RunValidationFlags(f, errs) ==
  WatchMeta([f EXCEPT !.valid = (Len(errs) = 0), !.invalid = (Len(errs) # 0), !.pending = FALSE])

\* useField.ts: patch(result), on the meta.
PatchLeavesValidated(f, errs, v) ==
  WatchMeta([f EXCEPT !.changed = (initialValue # v), !.valid = (Len(errs) = 0),
                      !.invalid = (Len(errs) # 0)])
Patch(f, errs, v) ==
  WatchMeta([f EXCEPT !.changed = (initialValue # v), !.valid = (Len(errs) = 0),
                      !.invalid = (Len(errs) # 0), !.validated = TRUE])

InitMeta ==
  /\ LaterIdle
  /\ ValidateIdle
  /\ SchemaIdle
  /\ LocatorIdle
  /\ ObserverIdle
  /\ RegistryIdle
  /\ FormIdle
  /\ impl \in FieldKinds
  /\ lastOp = "created"
  /\ resetAt = 0
  /\ value \in MetaValues
  /\ initialValue = value
  /\ messages = <<>>
  /\ flags = CASE impl = "Provider" -> ProviderFlags
               [] impl = "useField" -> InitialMeta
               [] OTHER -> CreateFlags
  /\ waiting = 0
  /\ inflight = [r \in {} |-> [value |-> "", via |-> "silent", stage |-> "run"]]
  /\ started = 0
  /\ latestValue = value
  /\ applied = 0
  /\ origins = <<>>

\* The unchanged rest of a step of this field.
MetaFrame ==
  /\ LET mark == IF lastOp' = "reset" THEN started ELSE resetAt IN
     resetAt' = IF \E r \in DOMAIN inflight' : r <= mark THEN mark ELSE 0
  /\ UNCHANGED <<waiting, latestValue, applied, origins, impl, vvars, svars, lvars, ovars, gvars, uvars, cvars, dvars>>

\* validateSilent() / runValidation() up to the pending validate promise.
MetaStartRun(v, via) ==
  /\ started < MaxRuns
  /\ started' = started + 1
  /\ inflight' = [r \in DOMAIN inflight \cup {started + 1} |->
                    IF r = started + 1 THEN [value |-> v, via |-> via, stage |-> "run"]
                    ELSE inflight[r]]

\* provider.js: silentHandler, the handler of the run made at mount.
SilentHandler(f, errs) == [f EXCEPT !.valid = (Len(errs) = 0), !.invalid = (Len(errs) # 0)]

\* syncValue(v) of the provider in use.
SyncValueOf(f, v) == IF impl = "provider.js" THEN SyncValue(f, v) ELSE ProviderSyncValue(f, v)

\* provider.js, Provider.ts: the input handler: syncValue, then dirty and
\* pristine.
ProviderOnInput(v) ==
  /\ impl \in {"Provider", "provider.js"}
  /\ value' = v
  /\ flags' = [SyncValueOf(flags, v) EXCEPT !.dirty = TRUE, !.pristine = FALSE]
  /\ lastOp' = "input"
  /\ UNCHANGED <<initialValue, messages, inflight, started>>
  /\ MetaFrame

\* useField.ts: handleInput()
HandleInput ==
  /\ impl = "useField"
  /\ flags' = [flags EXCEPT !.dirty = TRUE, !.pristine = FALSE]
  /\ lastOp' = "input"
  /\ UNCHANGED <<value, initialValue, messages, inflight, started>>
  /\ MetaFrame

\* useField.ts: handleChange(e) sets the value and watch(value) validates it.
HandleChange(v) ==
  /\ impl = "useField"
  /\ v # value
  /\ value' = v
  /\ MetaStartRun(v, "validate")
  /\ flags' = [flags EXCEPT !.pending = TRUE]
  /\ lastOp' = "other"
  /\ UNCHANGED <<initialValue, messages>>
  /\ MetaFrame

\* The blur handler of the field.
HandleBlur ==
  /\ impl \in FieldKinds
  /\ flags' = [flags EXCEPT !.touched = TRUE, !.untouched = FALSE]
  /\ lastOp' = "blur"
  /\ UNCHANGED <<value, initialValue, messages, inflight, started>>
  /\ MetaFrame

\* Provider.ts: validate(...args): if (args.length > 0) syncValue(args[0]);
\* provider.js: if (args[0]) syncValue(args[0]);
\* useField.ts: validate(), that is runValidationWithMutation().
MetaValidate(arg) ==
  /\ impl \in FieldKinds
  /\ impl = "useField" => arg = NoArgument
  /\ LET synced == arg # NoArgument /\ (impl = "provider.js" => arg # "")
         v == IF synced THEN arg ELSE value
         f == IF synced THEN SyncValueOf(flags, v) ELSE flags
     IN /\ MetaStartRun(v, "validate")
        /\ value' = v
        /\ flags' = [f EXCEPT !.pending = TRUE]
  /\ lastOp' = "other"
  /\ UNCHANGED <<initialValue, messages>>
  /\ MetaFrame

\* Provider.ts: validateSilent() called on the field; useField.ts: the
\* runValidation() of onMounted, whose result is not patched; provider.js:
\* the validateSilent() onRenderUpdate makes at the first render of a field
\* that is not immediate, whose result goes to silentHandler.
MetaValidateSilent ==
  /\ impl \in FieldKinds
  /\ impl # "Provider" => started = 0
  /\ MetaStartRun(value, IF impl = "Provider" THEN "silent" ELSE "mount")
  /\ flags' = [flags EXCEPT !.pending = TRUE]
  /\ lastOp' = "other"
  /\ UNCHANGED <<value, initialValue, messages>>
  /\ MetaFrame

\* The validate promise of run r resolves: validateSilent / runValidation
\* set pending, valid and invalid and return the result.
RunSettles(r) ==
  /\ impl \in FieldKinds
  /\ r \in DOMAIN inflight
  /\ inflight[r].stage = "run"
  /\ LET errs == Verify(inflight[r].value) IN
     flags' = CASE impl = "Provider" -> ValidateSilentFlags(flags, errs)
                [] impl = "useField" -> RunValidationFlags(flags, errs)
                [] OTHER -> [flags EXCEPT !.pending = FALSE]
  /\ inflight' = IF inflight[r].via = "silent" \/ (inflight[r].via = "mount" /\ impl = "useField")
                   THEN [q \in DOMAIN inflight \ {r} |-> inflight[q]]
                   ELSE [inflight EXCEPT ![r].stage = "apply"]
  /\ lastOp' = "other"
  /\ UNCHANGED <<value, initialValue, messages, started>>
  /\ MetaFrame

\* The continuation of validate() / runValidationWithMutation(): applyResult /
\* patch with the result of run r; for the run provider.js makes at mount,
\* silentHandler.
RunApplied(r) ==
  /\ impl \in FieldKinds
  /\ r \in DOMAIN inflight
  /\ inflight[r].stage = "apply"
  /\ LET errs == Verify(inflight[r].value) IN
     IF inflight[r].via = "mount"
       THEN /\ flags' = SilentHandler(flags, errs)
            /\ UNCHANGED messages
       ELSE /\ messages' = errs
            /\ flags' = CASE impl = "Provider" -> ProviderApplyResult(flags, errs, value)
                           [] impl = "useField" -> Patch(flags, errs, value)
                           [] OTHER -> ApplyResult(flags, errs, value)
  /\ inflight' = [q \in DOMAIN inflight \ {r} |-> inflight[q]]
  /\ lastOp' = IF inflight[r].via = "mount" THEN "other" ELSE "applied"
  /\ UNCHANGED <<value, initialValue, started>>
  /\ MetaFrame

\* Provider.ts: reset(), which ends by calling validateSilent().
ProviderReset ==
  /\ impl = "Provider"
  /\ messages' = <<>>
  /\ initialValue' = value
  /\ MetaStartRun(value, "silent")
  /\ flags' = [ProviderFlags EXCEPT !.pending = TRUE]
  /\ lastOp' = "reset"
  /\ UNCHANGED value
  /\ MetaFrame

\* useField.ts: reset()
FieldReset ==
  /\ impl = "useField"
  /\ messages' = <<>>
  /\ flags' = ResetMeta(flags)
  /\ lastOp' = "reset"
  /\ UNCHANGED <<value, initialValue, inflight, started>>
  /\ MetaFrame

\* The value of a target field changes: watchCrossFieldDep's watcher and the
\* watchEffect of useField validate the field when it is validated already,
\* the watcher of provider.js validates it in any case.
MetaTargetChanged ==
  /\ impl \in FieldKinds
  /\ IF flags.validated \/ impl = "provider.js"
       THEN /\ MetaStartRun(value, "watcher")
            /\ flags' = [flags EXCEPT !.pending = TRUE]
       ELSE UNCHANGED <<flags, inflight, started>>
  /\ lastOp' = "other"
  /\ UNCHANGED <<value, initialValue, messages>>
  /\ MetaFrame

NextMeta ==
  \/ \E v \in MetaValues : ProviderOnInput(v)
  \/ HandleInput
  \/ \E v \in MetaValues : HandleChange(v)
  \/ HandleBlur
  \/ \E a \in MetaValues \cup {NoArgument} : MetaValidate(a)
  \/ MetaValidateSilent
  \/ \E r \in 1..MaxRuns : RunSettles(r)
  \/ \E r \in 1..MaxRuns : RunApplied(r)
  \/ ProviderReset
  \/ FieldReset
  \/ MetaTargetChanged

SpecMeta == InitMeta /\ [][NextMeta]_vars

\* ----------------------------------------- the observer and its providers
InitObserver ==
  /\ LaterIdle
  /\ ValidateIdle
  /\ SchemaIdle
  /\ FieldIdle
  /\ LocatorIdle
  /\ MetaIdle
  /\ RegistryIdle
  /\ FormIdle
  /\ refs = [v \in {} |-> 1]
  /\ fields \in [Comps -> {NewField(v) : v \in MetaValues}]
  /\ registered = {}
  /\ runs = NoRuns
  /\ runCount = 0
  /\ formCall = NoFormCall
  /\ lastStep = OtherStep

ObserverFrame == UNCHANGED <<vvars, svars, fvars, lvars, mvars, gvars, uvars, cvars, dvars>>

\* A provider is mounted under the observer: subscribe(provider).
ProviderSubscribes(c) ==
  /\ c \notin registered
  /\ refs' = Subscribe(refs, c)
  /\ registered' = registered \cup {c}
  /\ lastStep' = OtherStep
  /\ UNCHANGED <<fields, runs, runCount, formCall>>
  /\ ObserverFrame

\* A provider is destroyed: unsubscribe(provider).
ProviderUnsubscribes(c) ==
  /\ c \in registered
  /\ refs' = Unsubscribe(refs, c)
  /\ registered' = registered \ {c}
  /\ lastStep' = OtherStep
  /\ UNCHANGED <<fields, runs, runCount, formCall>>
  /\ ObserverFrame

\* onInput(e) of provider c.
FieldInput(c, v) ==
  /\ c \in registered
  /\ fields' = [fields EXCEPT ![c].value = v, ![c].flags.dirty = TRUE, ![c].flags.pristine = FALSE]
  /\ lastStep' = OtherStep
  /\ UNCHANGED <<refs, registered, runs, runCount, formCall>>
  /\ ObserverFrame

\* onBlur() of provider c.
FieldBlur(c) ==
  /\ c \in registered
  /\ fields' = [fields EXCEPT ![c].flags.touched = TRUE, ![c].flags.untouched = FALSE]
  /\ lastStep' = OtherStep
  /\ UNCHANGED <<refs, registered, runs, runCount, formCall>>
  /\ ObserverFrame

\* The pending runs after validate() was called on every provider of cs: each
\* run takes the lowest free run number and validates the provider's value.
RECURSIVE StartRuns(_, _, _, _)
StartRuns(rs, cs, fs, form) ==
  IF cs = {} THEN rs
  ELSE LET c == CHOOSE x \in cs : \A y \in cs : x <= y
           n == CHOOSE k \in 1..(Cardinality(DOMAIN rs) + 1) :
                  k \notin DOMAIN rs /\ \A j \in 1..(k - 1) : j \in DOMAIN rs
           next == [r \in DOMAIN rs \cup {n} |->
                      IF r = n THEN [comp |-> c, value |-> fs[c].value, form |-> form]
                      ELSE rs[r]]
       IN StartRuns(next, cs \ {c}, fs, form)

\* validateSilent() sets pending on every provider of cs.
SetPending(fs, cs) ==
  [c \in DOMAIN fs |-> IF c \in cs THEN [fs[c] EXCEPT !.flags.pending = TRUE] ELSE fs[c]]

\* validate() called on provider c alone (its validate handler).
FieldValidate(c) ==
  /\ c \in registered
  /\ runCount < MaxObserverRuns
  /\ runCount' = runCount + 1
  /\ runs' = StartRuns(runs, {c}, fields, FALSE)
  /\ fields' = SetPending(fields, {c})
  /\ lastStep' = OtherStep
  /\ UNCHANGED <<refs, registered, formCall>>
  /\ ObserverFrame

\* ctx.validate(): the observer's validate() calls validate() on values(this.refs).
ObserverValidate ==
  LET ps == RefValues(refs)
      cs == {ps[i] : i \in DOMAIN ps}
  IN /\ formCall.state # "pending"
     /\ runCount + Cardinality(cs) <= MaxObserverRuns
     /\ runCount' = runCount + Cardinality(cs)
     /\ runs' = StartRuns(runs, cs, fields, TRUE)
     /\ fields' = SetPending(fields, cs)
     /\ formCall' = [state |-> "pending", at |-> registered, results |-> [c \in {} |-> <<>>],
                     success |-> FALSE, handlerCalled |-> FALSE]
     /\ lastStep' = OtherStep
     /\ UNCHANGED <<refs, registered>>
     /\ ObserverFrame

\* The verify promise of run r resolves: the provider's validate() clears
\* pending and applies the result; a run of the form call hands it its result.
RunResolves(r) ==
  /\ r \in DOMAIN runs
  /\ LET c == runs[r].comp
         errs == Verify(runs[r].value)
     IN /\ fields' = [fields EXCEPT ![c].messages = errs,
                                    ![c].flags.pending = FALSE,
                                    ![c].flags.valid = (Len(errs) = 0),
                                    ![c].flags.invalid = (Len(errs) # 0),
                                    ![c].flags.validated = TRUE]
        /\ formCall' = IF runs[r].form
                         THEN [formCall EXCEPT !.results =
                                 [d \in DOMAIN formCall.results \cup {c} |->
                                    IF d = c THEN errs ELSE formCall.results[d]]]
                         ELSE formCall
  /\ runs' = [q \in DOMAIN runs \ {r} |-> runs[q]]
  /\ lastStep' = IF runs[r].form
                    THEN [op |-> "resolved", comp |-> runs[r].comp,
                          errors |-> Verify(runs[r].value), form |-> TRUE]
                    ELSE OtherStep
  /\ UNCHANGED <<refs, registered, runCount>>
  /\ ObserverFrame

\* The runs of the form call.
FormRuns == {r \in DOMAIN runs : runs[r].form}

\* Promise.all resolves: results.every(r => r.valid), and the handler given
\* to then is called when that is true.
SuccessAlways(results) == TRUE
Success(results) == \A c \in DOMAIN results : Len(results[c]) = 0

FormSettles ==
  /\ formCall.state = "pending"
  /\ FormRuns = {}
  /\ formCall' = [formCall EXCEPT !.state = "done",
                                  !.success = Success(formCall.results),
                                  !.handlerCalled = Success(formCall.results)]
  /\ lastStep' = [op |-> "settled", comp |-> 0, errors |-> <<>>, form |-> TRUE]
  /\ UNCHANGED <<refs, fields, registered, runs, runCount>>
  /\ ObserverFrame

\* The providers' own events and the ctx the observer computes from them.
NextAggregate ==
  \/ \E c \in Comps : ProviderSubscribes(c)
  \/ \E c \in Comps : ProviderUnsubscribes(c)
  \/ \E c \in Comps, v \in MetaValues : FieldInput(c, v)
  \/ \E c \in Comps : FieldBlur(c)
  \/ \E c \in Comps : FieldValidate(c)
  \/ \E r \in 1..MaxObserverRuns : RunResolves(r)

SpecAggregate == InitObserver /\ [][NextAggregate]_vars

\* The observer's validate() among the providers' inputs and validations.
NextObserver ==
  \/ \E c \in Comps : ProviderSubscribes(c)
  \/ \E c \in Comps : ProviderUnsubscribes(c)
  \/ \E c \in Comps, v \in MetaValues : FieldInput(c, v)
  \/ \E c \in Comps : FieldValidate(c)
  \/ ObserverValidate
  \/ \E r \in 1..MaxObserverRuns : RunResolves(r)
  \/ FormSettles

SpecObserver == InitObserver /\ [][NextObserver]_vars

\* -------------------------------------- providers and their registry
InitRegistry ==
  /\ LaterIdle
  /\ ValidateIdle
  /\ SchemaIdle
  /\ FieldIdle
  /\ LocatorIdle
  /\ MetaIdle
  /\ ObserverIdle
  /\ FormIdle
  /\ regImpl \in RegImplementations
  /\ veeRefs = NoRefs
  /\ provs = [c \in ProvIds |-> NewProvider]
  /\ lastReg = NoReg
  /\ counter = 0
  /\ clash = FALSE

RegFrame == UNCHANGED <<regImpl, vvars, svars, fvars, lvars, mvars, ovars, uvars, cvars, dvars>>

\* updateRenderingContextRefs(ctx) of the file in use: the registry after it.
UpdateRefs(r, c, p) ==
  IF regImpl = "Provider.ts" THEN UpdateRefsTs(r, c, p, counter) ELSE UpdateRefsJs(r, c, p)

\* Another provider that is mounted holds or is about to take identifier k.
HeldByOther(c, k) ==
  \E d \in ProvIds \ {c} :
    /\ provs[d].status \in {"live", "inactive"}
    /\ k \in {provs[d].id, provs[d].vid, IF provs[d].name # 0 THEN NameId(provs[d].name) ELSE 0}

\* A provider is created with the vid v and the name n (0: not given) and
\* rendered for the first time: render() calls registerField(), which calls
\* updateRenderingContextRefs.
Mount(c, v, n) ==
  /\ provs[c].status = "none"
  /\ LET p == [NewProvider EXCEPT !.status = "live", !.vid = VidProp(v, counter), !.given = v, !.name = n]
         ctr == IF regImpl = "provider.js" /\ v = 0 THEN counter + 1 ELSE counter
         id == UpdateId(veeRefs, p, ctr)
         taken == IF regImpl = "provider.js" THEN v = 0 ELSE Generates(p)
     IN  /\ veeRefs' = IF regImpl = "Provider.ts" THEN UpdateRefsTs(veeRefs, c, p, ctr)
                       ELSE UpdateRefsJs(veeRefs, c, p)
         /\ provs' = [provs EXCEPT ![c] = [p EXCEPT !.id = id, !.gen = IF taken THEN id ELSE 0]]
         /\ counter' = IF regImpl = "Provider.ts" /\ Generates(p) THEN ctr + 1 ELSE ctr
         /\ clash' = (clash \/ HeldByOther(c, id))
  /\ lastReg' = NoReg
  /\ RegFrame

\* The parent gives the provider another vid; its render is queued.
VidChanged(c, v) ==
  /\ provs[c].status \in {"live", "inactive"}
  /\ provs[c].vid # v
  /\ provs' = [provs EXCEPT ![c].vid = v, ![c].given = v, ![c].queued = TRUE]
  /\ clash' = (clash \/ HeldByOther(c, v))
  /\ lastReg' = NoReg
  /\ UNCHANGED <<veeRefs, counter>>
  /\ RegFrame

\* The provider renders again.
Render(c) ==
  /\ provs[c].status \in {"live", "inactive"}
  /\ LET p == provs[c]
         new == IF regImpl = "Provider.ts" THEN ExtractId(p, counter) ELSE p.vid
     IN  /\ veeRefs' = UpdateRefs(veeRefs, c, p)
         /\ provs' = [provs EXCEPT ![c].id = UpdateId(veeRefs, p, counter),
                                   ![c].queued = (p.status = "inactive" /\ p.queued)]
         /\ lastReg' = IF p.status = "live" /\ p.id # 0 /\ p.id # new
                          THEN [op |-> "reregistered", comp |-> c, old |-> p.id, new |-> new,
                                had |-> (veeRefs[p.id] = c)]
                          ELSE NoReg
  /\ UNCHANGED <<counter, clash>>
  /\ RegFrame

\* beforeDestroy: $unsubscribe(this) of provider.js deletes the entry under
\* this.vid, unsubscribe(this.id) of Provider.ts the one under this.id. A
\* live provider is destroyed after its queued render has run.
Destroy(c) ==
  /\ \/ provs[c].status = "inactive"
     \/ provs[c].status = "live" /\ ~provs[c].queued
  /\ veeRefs' = RegUnsubscribe(veeRefs, IF regImpl = "Provider.ts" THEN provs[c].id ELSE provs[c].vid)
  /\ provs' = [provs EXCEPT ![c].status = "destroyed"]
  /\ lastReg' = NoReg
  /\ UNCHANGED <<counter, clash>>
  /\ RegFrame

\* deactivated() of Provider.ts.
Deactivated(c) ==
  /\ regImpl = "Provider.ts"
  /\ provs[c].status = "live"
  /\ veeRefs' = RegUnsubscribe(veeRefs, provs[c].id)
  /\ provs' = [provs EXCEPT ![c].status = "inactive"]
  /\ lastReg' = NoReg
  /\ UNCHANGED <<counter, clash>>
  /\ RegFrame

\* activated() of Provider.ts; the provider renders after it.
Activated(c) ==
  /\ regImpl = "Provider.ts"
  /\ provs[c].status = "inactive"
  /\ veeRefs' = RegSubscribe(veeRefs, provs[c].id, c)
  /\ provs' = [provs EXCEPT ![c].status = "live"]
  /\ clash' = (clash \/ HeldByOther(c, provs[c].id))
  /\ lastReg' = NoReg
  /\ UNCHANGED counter
  /\ RegFrame

NextRegistry ==
  \/ \E c \in ProvIds, v \in Vids \cup {0}, n \in ProviderNames \cup {0} : Mount(c, v, n)
  \/ \E c \in ProvIds, v \in Vids : VidChanged(c, v)
  \/ \E c \in ProvIds : Render(c)
  \/ \E c \in ProvIds : Destroy(c)
  \/ \E c \in ProvIds : Deactivated(c)
  \/ \E c \in ProvIds : Activated(c)

SpecRegistry == InitRegistry /\ [][NextRegistry]_vars

\* --------------------------- one run over rules that name a target
ValueSources == {"form.values", "createValuesLookup"}

InitSnapshot ==
  /\ ValidateIdle
  /\ SchemaIdle
  /\ FieldIdle
  /\ MetaIdle
  /\ ObserverIdle
  /\ RegistryIdle
  /\ FormIdle
  /\ DebounceIdle
  /\ \E n \in TargetNames : fillParams = [isArray |-> TRUE, keys |-> <<>>, vals |-> <<Locator(n)>>]
  /\ providers \in Registries
  /\ fillPc = "idle"
  /\ filled = [isArray |-> TRUE, keys |-> <<>>, vals |-> <<>>]
  /\ valuesFrom \in ValueSources
  /\ formData = NoFormData
  /\ rulePos = 0
  /\ seen = <<>>

SnapshotFrame == UNCHANGED <<fillParams, fillPc, filled, valuesFrom, vvars, svars, fvars, mvars, ovars,
                             gvars, uvars, dvars>>

\* field.formData as _test reads it: the object made for the run, or
\* form.values itself, which holds what the fields hold now.
FormDataNow == IF valuesFrom = "form.values" THEN providers ELSE formData

\* runValidation of useField.ts calls validate with values: form.values;
\* validateSilent of Provider.ts calls it with createValuesLookup(this).
\* validate keeps what it is given as field.formData.
RunStarts ==
  /\ rulePos = 0
  /\ rulePos' = 1
  /\ formData' = IF valuesFrom = "createValuesLookup"
                   THEN CreateValuesLookup(FieldDeps(fillParams), providers)
                   ELSE NoFormData
  /\ UNCHANGED <<providers, seen>>
  /\ SnapshotFrame

\* The loop of _validate awaits _test for the next rule: _test fills the
\* rule's parameters from field.formData and awaits the rule.
TestsNextRule ==
  /\ rulePos \in 1..MaxTargetRules
  /\ seen' = Append(seen, FillTargetValues(fillParams, FormDataNow).vals[1])
  /\ rulePos' = rulePos + 1
  /\ UNCHANGED <<providers, formData>>
  /\ SnapshotFrame

\* The target field's value changes (the user types in it): the field that
\* holds it, and with it form.values, has the new value.
TargetValueChanges(n, v) ==
  /\ n \in DOMAIN providers
  /\ providers[n] # v
  /\ providers' = [providers EXCEPT ![n] = v]
  /\ UNCHANGED <<formData, rulePos, seen>>
  /\ SnapshotFrame

NextSnapshot ==
  \/ RunStarts
  \/ TestsNextRule
  \/ \E n \in TargetNames, v \in TargetValues : TargetValueChanges(n, v)

SpecSnapshot == InitSnapshot /\ [][NextSnapshot]_vars

\* ------------------------------- provider.js: the debounced handler
InitDebounce ==
  /\ ValidateIdle
  /\ SchemaIdle
  /\ LocatorIdle
  /\ MetaIdle
  /\ ObserverIdle
  /\ RegistryIdle
  /\ FormIdle
  /\ SnapshotIdle
  /\ value \in FieldValues
  /\ initialValue = value
  /\ messages = <<>>
  /\ flags = CreateFlags
  /\ waiting = 0
  /\ inflight = [r \in {} |-> [value |-> "", via |-> "direct"]]
  /\ started = 0
  /\ latestValue = value
  /\ applied = 0
  /\ origins = <<>>
  /\ handlerGen = 1
  /\ timers = NoTimers
  /\ renderQueued = FALSE
  /\ quiet = 0
  /\ burst = NoBurst

DebounceFrame == UNCHANGED <<vvars, svars, lvars, mvars, ovars, gvars, uvars, cvars>>

\* debounce(fn, wait): a call of the debounced function (re)arms its timer.
Arm(ts, g) == [h \in DOMAIN ts \cup {g} |-> IF h = g THEN Delay ELSE ts[h]]

\* An input event: the listeners of the last render run, onInput and the
\* debounced onValidate that render made. The value changes, so the provider
\* renders again.
Trigger(v) ==
  /\ burst.triggers < MaxTriggers
  /\ burst.triggers = 0 \/ quiet < Delay
  /\ ~renderQueued
  /\ \A g \in DOMAIN timers : timers[g] > 0
  /\ v # value
  /\ value' = v
  /\ flags' = [SyncValue(flags, v) EXCEPT !.dirty = TRUE, !.pristine = FALSE]
  /\ timers' = Arm(timers, handlerGen)
  /\ quiet' = 0
  /\ burst' = [burst EXCEPT !.triggers = @ + 1, !.early = (@ \/ burst.runs > 0)]
  /\ renderQueued' = TRUE
  /\ UNCHANGED <<initialValue, messages, waiting, inflight, started, latestValue, applied, origins,
                 handlerGen>>
  /\ DebounceFrame

\* render: addListeners calls createCommonHandlers(this), which makes a new
\* debounced onValidate, and puts it on the input.
RenderRuns ==
  /\ renderQueued
  /\ renderQueued' = FALSE
  /\ handlerGen' = handlerGen + 1
  /\ UNCHANGED <<fvars, timers, quiet, burst>>
  /\ DebounceFrame

\* One unit of time passes with no event.
Tick ==
  /\ ~renderQueued
  /\ DOMAIN timers # {}
  /\ \A g \in DOMAIN timers : timers[g] > 0
  /\ timers' = [g \in DOMAIN timers |-> timers[g] - 1]
  /\ quiet' = IF quiet < Delay THEN quiet + 1 ELSE quiet
  /\ UNCHANGED <<fvars, handlerGen, renderQueued, burst>>
  /\ DebounceFrame

\* The timer of the debounced onValidate of render g runs out: the handler
\* calls ctx.validate() and keeps its promise in ctx._waiting.
Fires(g) ==
  /\ g \in DOMAIN timers
  /\ timers[g] = 0
  /\ ~renderQueued
  /\ StartRun(value, "handler")
  /\ flags' = [flags EXCEPT !.pending = TRUE]
  /\ waiting' = started + 1
  /\ timers' = [h \in DOMAIN timers \ {g} |-> timers[h]]
  /\ burst' = [burst EXCEPT !.runs = @ + 1]
  /\ renderQueued' = TRUE
  /\ UNCHANGED <<value, initialValue, messages, applied, handlerGen, quiet>>
  /\ DebounceFrame

\* The verify promise of run r resolves and its result is applied.
RunDone(r) ==
  /\ r \in DOMAIN inflight
  /\ LET errs == Verify(inflight[r].value) IN
     /\ messages' = errs
     /\ flags' = ApplyResult([flags EXCEPT !.pending = FALSE], errs, value)
  /\ waiting' = IF waiting = r THEN 0 ELSE waiting
  /\ inflight' = [q \in DOMAIN inflight \ {r} |-> inflight[q]]
  /\ applied' = r
  /\ renderQueued' = TRUE
  /\ UNCHANGED <<value, initialValue, started, latestValue, origins, handlerGen, timers, quiet, burst>>
  /\ DebounceFrame

NextDebounce ==
  \/ \E v \in FieldValues : Trigger(v)
  \/ RenderRuns
  \/ Tick
  \/ \E g \in 1..(2 * MaxTriggers + MaxRuns + 1) : Fires(g)
  \/ \E r \in 1..MaxRuns : RunDone(r)

SpecDebounce == InitDebounce /\ [][NextDebounce]_vars

\* ------------------------------- validating a missing form or field
MaxWarnings == 2

\* Promise.resolve({ errors: {}, valid: true }) of the function useValidateForm returns.
NoFormResultInvalid == [valid |-> FALSE, errors |-> <<>>]
NoFormResult == [valid |-> TRUE, errors |-> <<>>]

\* The errors of every field after form.validate().
ValidatedFields(fs) == [n \in DOMAIN fs |-> [fs[n] EXCEPT !.errors = Verify(fs[n].value)]]

InitForm ==
  /\ LaterIdle
  /\ ValidateIdle
  /\ SchemaIdle
  /\ FieldIdle
  /\ LocatorIdle
  /\ MetaIdle
  /\ ObserverIdle
  /\ RegistryIdle
  /\ hasForm \in BOOLEAN
  /\ formFields = NoFields
  /\ composable = "none"
  /\ warnings = 0
  /\ lastCall = NoCall

FormFrame == UNCHANGED <<hasForm, vvars, svars, fvars, lvars, mvars, ovars, gvars, cvars, dvars>>

\* A field is set up in the component tree; it registers with the form when
\* there is one.
RegisterField(n, v) ==
  /\ n \notin DOMAIN formFields
  /\ formFields' = [m \in DOMAIN formFields \cup {n} |->
                      IF m = n THEN [value |-> v, errors |-> <<>>, touched |-> FALSE]
                      ELSE formFields[m]]
  /\ lastCall' = NoCall
  /\ UNCHANGED <<composable, warnings>>
  /\ FormFrame

\* The field is removed.
UnregisterField(n) ==
  /\ n \in DOMAIN formFields
  /\ formFields' = [m \in DOMAIN formFields \ {n} |-> formFields[m]]
  /\ lastCall' = NoCall
  /\ UNCHANGED <<composable, warnings>>
  /\ FormFrame

\* The field's value changes.
SetFieldValue(n, v) ==
  /\ n \in DOMAIN formFields
  /\ formFields[n].value # v
  /\ formFields' = [formFields EXCEPT ![n].value = v]
  /\ lastCall' = NoCall
  /\ UNCHANGED <<composable, warnings>>
  /\ FormFrame

\* useValidateForm(): injects the form and warns when there is none.
UseValidateForm ==
  /\ hasForm \/ warnings < MaxWarnings
  /\ composable' = "created"
  /\ warnings' = IF hasForm THEN warnings ELSE warnings + 1
  /\ lastCall' = NoCall
  /\ UNCHANGED formFields
  /\ FormFrame

\* The function useValidateForm returned is called: without a form it
\* resolves the default result, with one it returns form.validate().
ValidateForm ==
  /\ composable = "created"
  /\ IF ~hasForm
       THEN /\ lastCall' = [op |-> "noForm", names |-> {}, warned |-> FALSE, valid |-> NoFormResult.valid,
                            errors |-> NoFormResult.errors, before |-> formFields]
            /\ UNCHANGED formFields
       ELSE /\ formFields' = ValidatedFields(formFields)
            /\ lastCall' = [op |-> "form", names |-> DOMAIN formFields, warned |-> FALSE,
                            valid |-> (\A n \in DOMAIN formFields : Verify(formFields[n].value) = <<>>),
                            errors |-> [n \in {m \in DOMAIN formFields : Verify(formFields[m].value) # <<>>}
                                          |-> Verify(formFields[n].value)[1]],
                            before |-> formFields]
  /\ UNCHANGED <<composable, warnings>>
  /\ FormFrame

\* form.validateField(n): a field that is not registered gives a warning and
\* the default result; a registered one is validated.
ValidateField(n) ==
  /\ hasForm
  /\ IF n \notin DOMAIN formFields
       THEN /\ warnings < MaxWarnings
            /\ warnings' = warnings + 1
            /\ lastCall' = [op |-> "unknownField", names |-> {n}, warned |-> TRUE, valid |-> TRUE, errors |-> <<>>,
                            before |-> formFields]
            /\ UNCHANGED formFields
       ELSE /\ formFields' = [formFields EXCEPT ![n].errors = Verify(formFields[n].value)]
            /\ lastCall' = [op |-> "field", names |-> {n}, warned |-> FALSE, valid |-> (Verify(formFields[n].value) = <<>>),
                            errors |-> Verify(formFields[n].value), before |-> formFields]
            /\ UNCHANGED warnings
  /\ UNCHANGED composable
  /\ FormFrame

\* The message setFieldError and setErrors are called with.
Wrong == <<"WRONG">>

\* setErrors(map) / setFieldError(name, message): the errors of the named
\* fields that are registered become the message; other names are ignored.
SetErrorsOnAll(fs, names) == [m \in DOMAIN fs |-> [fs[m] EXCEPT !.errors = IF m \in names THEN Wrong ELSE <<>>]]
SetErrorsOn(fs, names) == [m \in DOMAIN fs |-> IF m \in names THEN [fs[m] EXCEPT !.errors = Wrong] ELSE fs[m]]

\* setTouched(map) / setFieldTouched(name, isTouched)
SetTouchedOn(fs, names, b) == [m \in DOMAIN fs |-> IF m \in names THEN [fs[m] EXCEPT !.touched = b] ELSE fs[m]]

\* form.setFieldError(n, message) and form.setErrors({ ... }) with the names ns.
SetErrors(ns) ==
  /\ hasForm
  /\ formFields' = SetErrorsOn(formFields, ns)
  /\ lastCall' = [NoCall EXCEPT !.op = "setErrors", !.names = ns, !.before = formFields]
  /\ UNCHANGED <<composable, warnings>>
  /\ FormFrame

\* form.setFieldTouched(n, b) and form.setTouched({ ... }) with the names ns.
SetTouched(ns, b) ==
  /\ hasForm
  /\ formFields' = SetTouchedOn(formFields, ns, b)
  /\ lastCall' = [NoCall EXCEPT !.op = "setTouched", !.names = ns, !.before = formFields]
  /\ UNCHANGED <<composable, warnings>>
  /\ FormFrame

NextForm ==
  \/ \E n \in FieldNames, v \in MetaValues : RegisterField(n, v)
  \/ \E n \in FieldNames : UnregisterField(n)
  \/ \E n \in FieldNames, v \in MetaValues : SetFieldValue(n, v)
  \/ UseValidateForm
  \/ ValidateForm
  \/ \E n \in FieldNames : ValidateField(n)
  \/ \E ns \in SUBSET FieldNames \ {{}} : SetErrors(ns)
  \/ \E ns \in SUBSET FieldNames \ {{}}, b \in BOOLEAN : SetTouched(ns, b)

SpecForm == InitForm /\ [][NextForm]_vars

\* ------------------------------------------------------------------ claims
Settled == pc = "settled"
RuleListRun == call.kind \in {"string", "mapping"}
Positions == DOMAIN call.rules
\* A rule fails when its capability returns false or a (non-empty) message;
\* it aborts the run when it throws or has no descriptor.
FailsAt(k) == call.rules[k] \in {"false", "string"}
AbortsAt(k) == call.rules[k] \in {"throws", "unregistered"}
FailingRules == {k \in Positions : FailsAt(k)}
First(S) == CHOOSE k \in S : \A j \in S : k <= j
\* The message the rule at place k owes when it fails.
MessageOf(k) ==
  IF call.rules[k] = "string" THEN Str(k)
  ELSE IF call.gen THEN ConfiguredMessage(k) ELSE FieldIsInvalid
MessagesOfFailing ==
  LET failing == SelectSeq([k \in Positions |-> k], FailsAt)
  IN [j \in DOMAIN failing |-> MessageOf(failing[j])]

\* C1: once the latest run of the field has resolved, the errors and the
\* valid, invalid and validated flags the field shows are that run's result,
\* whatever the order in which the overlapping runs resolved: the result of a
\* run that is no longer the latest is never applied.
C1_StaleResultDiscarded ==
  (started >= 2 /\ started \notin DOMAIN inflight /\ applied # 0) =>
    /\ messages = Verify(latestValue)
    /\ flags.valid = (Verify(latestValue) = <<>>)
    /\ flags.invalid = (Verify(latestValue) # <<>>)
    /\ flags.validated

\* C2: with bails true, or not given, a run over a list with two or more
\* failing rules resolves to exactly one error, the message of the first
\* failing rule of the list (it rejects instead only when a rule before that
\* one throws or is unknown).
C2_BailFirstError ==
  (Settled /\ RuleListRun /\ call.bails \in {"true", "unset"} /\ Cardinality(FailingRules) >= 2) =>
    LET f == First(FailingRules) IN
    IF \E k \in 1..(f - 1) : AbortsAt(k)
      THEN outcome.status = "rejected"
      ELSE outcome.status = "resolved" /\ outcome.errors = <<MessageOf(f)>>
C2_Witness ==
  /\ Settled /\ RuleListRun /\ call.bails = "unset"
  /\ Cardinality(FailingRules) >= 2 /\ First(FailingRules) = 2
  /\ outcome.status = "resolved" /\ Len(outcome.errors) = 1

\* C3: with bails false every rule of the list is run and the run resolves to
\* the messages of exactly the failing rules, in list order (it rejects
\* instead only when a rule of the list throws or is unknown).
C3_CollectAll ==
  (Settled /\ RuleListRun /\ call.bails = "false") =>
    IF \E k \in Positions : AbortsAt(k)
      THEN outcome.status = "rejected"
      ELSE /\ outcome.status = "resolved"
           /\ outcome.errors = MessagesOfFailing
           /\ invoked = [k \in Positions |-> k]
C3_Witness ==
  /\ Settled /\ RuleListRun /\ call.bails = "false"
  /\ Len(call.rules) = 3 /\ FailsAt(1) /\ call.rules[2] = "true" /\ FailsAt(3)
  /\ outcome.status = "resolved" /\ Len(outcome.errors) = 2

\* C4 as stated: a run whose list holds an unknown rule name rejects, for
\* either bail setting and every position of the name.
C4_UnknownAlwaysRejects ==
  (Settled /\ RuleListRun /\ (\E k \in Positions : call.rules[k] = "unregistered")) =>
    outcome.status = "rejected"
\* C4 amended: the run rejects unless bails is on and a failing rule stands
\* before the unknown name with nothing aborting before it; then it resolves
\* invalid with that rule's one error. It never resolves valid.
C4_UnknownReachedRejects ==
  (Settled /\ RuleListRun /\ (\E k \in Positions : call.rules[k] = "unregistered")) =>
    LET s == First({k \in Positions : AbortsAt(k) \/ (Bails(call.bails) /\ FailsAt(k))})
    IN IF AbortsAt(s)
         THEN /\ outcome.status = "rejected"
              /\ call.rules[s] = "unregistered" => outcome = Rejected(NoSuchValidator(s))
         ELSE outcome = Resolved(<<MessageOf(s)>>) /\ ~outcome.valid
C4_Witness ==
  /\ Settled /\ RuleListRun /\ Bails(call.bails)
  /\ Len(call.rules) >= 2 /\ FailsAt(1) /\ call.rules[2] = "unregistered"
  /\ outcome.status = "resolved"

\* C5: for a named rule the awaited return decides: true adds no error, false
\* adds one generated message, a string adds that exact string. Stated over
\* runs that collect every rule's error (bails false, nothing aborting).
ErrorOwed(k) ==
  CASE call.rules[k] = "true" -> <<>>
    [] call.rules[k] = "false" -> <<IF call.gen THEN ConfiguredMessage(k) ELSE FieldIsInvalid>>
    [] call.rules[k] \in {"string", "empty"} -> <<RuleReturn(call.rules[k], k)>>
RECURSIVE ErrorsOwed(_)
ErrorsOwed(n) == IF n = 0 THEN <<>> ELSE ErrorsOwed(n - 1) \o ErrorOwed(n)
C5_ReturnDecides ==
  (Settled /\ RuleListRun /\ call.bails = "false" /\ ~\E k \in Positions : AbortsAt(k)) =>
    outcome.status = "resolved" /\ outcome.errors = ErrorsOwed(Len(call.rules))

\* C6: every result validate resolves has valid = (errors is empty), whatever
\* the kind of the rule expression.
C6_ValidIffNoErrors ==
  outcome.status = "resolved" => (outcome.valid <=> outcome.errors = <<>>)
C6_Witness ==
  /\ outcome.status = "resolved" /\ call.kind = "schema"
  /\ Len(outcome.errors) = 2 /\ ~outcome.valid

\* C7: when the capability of a rule that the run invokes throws, validate
\* rejects with that same error and carries no errors and no valid result.
C7_ThrowPropagates ==
  Settled =>
    /\ RuleListRun =>
         \A j \in DOMAIN invoked :
           call.rules[invoked[j]] = "throws" => outcome = Rejected(RuleError(invoked[j]))
    /\ (call.kind = "function" /\ call.fn = "throws") => outcome = Rejected(RuleError(1))
C7_Witness ==
  /\ Settled /\ RuleListRun /\ call.bails = "false"
  /\ Len(call.rules) >= 2 /\ FailsAt(1) /\ call.rules[2] = "throws"
  /\ errors # <<>> /\ outcome = Rejected(RuleError(2))

\* C8, field level: a ValidationError rejection of the schema validator
\* resolves to its error strings, verbatim; any other rejection is re-thrown.
C8_FieldSchemaRejection ==
  (Settled /\ call.kind = "schema") =>
    LET r == YupValidate(call.schema, Bails(call.bails)) IN
    /\ (r.rejected /\ r.name = "ValidationError") =>
         /\ outcome.status = "resolved" /\ ~outcome.valid
         /\ outcome.errors = [i \in DOMAIN r.errors |-> <<"string", r.errors[i]>>]
    /\ (r.rejected /\ r.name # "ValidationError") => outcome = Rejected(SchemaError)

\* The error strings a schema-level result carries.
StringsOf(res) == UNION {{res[p].errors[i] : i \in DOMAIN res[p].errors} : p \in DOMAIN res}
Elements(q) == {q[i] : i \in DOMAIN q}

\* C8, validateYupSchema: a ValidationError rejection becomes validation
\* failure data (the call resolves invalid, carrying the rejection's error
\* strings); any other rejection is re-thrown unchanged.
C8_SchemaRejectionIsData ==
  (sPc = "settled" /\ sCall.entry = "yup") =>
    LET r == YupSchemaValidate(sCall, sMode = "abortEarly") IN
    /\ (r.rejected /\ r.name = "ValidationError") =>
         /\ sOut.status = "resolved" /\ ~sOut.valid
         /\ StringsOf(sOut.results) = Elements(r.errors)
    /\ (r.rejected /\ r.name # "ValidationError") => sOut = SchemaRejected(SchemaError)

\* C9: both schema-level entry points run in the mode the bail option asks
\* for: abort-early with at most one error per field when bail is on,
\* collect-all with every error of every field when it is off.
AllErrorsOf(p) ==
  IF sCall.entry = "yup" THEN [j \in 1..sCall.fails[p] |-> SchemaMessage(p, j)]
  ELSE Validate([FieldCall(sCall, p) EXCEPT !.bails = "false"]).errors
C9_BailHonoured ==
  sPc = "settled" =>
    /\ sMode = IF Bails(sCall.bails) THEN "abortEarly" ELSE "collectAll"
    /\ sOut.status = "resolved" =>
         \A p \in DOMAIN sOut.results :
           IF Bails(sCall.bails) THEN Len(sOut.results[p].errors) <= 1
           ELSE sOut.results[p].errors = AllErrorsOf(p)

\* C10: an empty value (empty string, null, undefined, empty array) with no
\* required rule in the list skips the rules and resolves valid, no errors.
IsEmptyValue(v) == v \in {EmptyString, Null, Undefined, EmptyArray}
C10_EmptyOptionalSkips ==
  (Settled /\ RuleListRun /\ IsEmptyValue(call.value) /\ call.required = {}) =>
    outcome = Resolved(<<>>)

\* C11: when a rule's parameters are filled, every locator parameter, of an
\* array or of a mapping, is replaced by the current value of the field it
\* names when that field is registered and by the target name itself when it
\* is not, and every other parameter is passed unchanged.
C11_LocatorsFilled ==
  fillPc = "filled" =>
    /\ filled.isArray = fillParams.isArray
    /\ filled.keys = fillParams.keys
    /\ DOMAIN filled.vals = DOMAIN fillParams.vals
    /\ \A i \in DOMAIN fillParams.vals :
         LET v == fillParams.vals[i] IN
         IF v \in TargetValues THEN filled.vals[i] = v
         ELSE \E n \in TargetNames :
                /\ v = Locator(n)
                /\ filled.vals[i] = IF n \in DOMAIN providers THEN providers[n] ELSE RawName(n)
C11_Witness ==
  /\ fillPc = "filled"
  /\ ~fillParams.isArray
  /\ \E i, j \in DOMAIN fillParams.vals :
       /\ fillParams.vals[i] = Locator(1) /\ 1 \in DOMAIN providers /\ filled.vals[i] = Str(2)
       /\ fillParams.vals[j] = Locator(2) /\ 2 \notin DOMAIN providers

\* C16: a change of the value of a target field validates the dependent field
\* and applies the result only when the dependent field is already validated:
\* a field whose runs were all started by the watcher of its target shows no
\* errors and is not validated.
C16_TargetChangeNeedsValidated ==
  (started > 0 /\ \A r \in 1..started : origins[r] = "watcher") =>
    (messages = <<>> /\ ~flags.validated)

\* C12: in every state of a field's meta, passed = (valid and validated) and
\* failed = (invalid and validated).
C12_PassedFailedDerived ==
  impl \in Implementations =>
    /\ flags.passed = (flags.valid /\ flags.validated)
    /\ flags.failed = (flags.invalid /\ flags.validated)

OtherFlagsKept(ks) == \A k \in DOMAIN flags \ ks : flags'[k] = flags[k]

\* The listed flags of a new field: untouched and pristine, and no other.
NewFieldFlags ==
  \A k \in DOMAIN flags \ {"required"} : flags[k] = (k \in {"untouched", "pristine"})

\* A blur has set touched and unset untouched and left the rest alone.
BlurEffect ==
  lastOp' = "blur" =>
    /\ flags'.touched /\ ~flags'.untouched
    /\ OtherFlagsKept({"touched", "untouched"})
    /\ messages' = messages

\* C24: a new field has untouched and pristine true and every other flag
\* false; a blur sets touched and unsets untouched, an input sets dirty and
\* unsets pristine, and each leaves every other flag and the errors as they
\* were.
C24_EventsTouchOnlyTheirFlags ==
  /\ [](lastOp = "created" => NewFieldFlags)
  /\ [][BlurEffect]_vars
  /\ [][lastOp' = "input" =>
          /\ flags'.dirty /\ ~flags'.pristine
          /\ OtherFlagsKept({"dirty", "pristine"})
          /\ messages' = messages]_vars

\* C24 as the code has it: the input handler of a provider also syncs the
\* value, which writes changed; every flag but dirty, pristine and changed and
\* the errors stay as they were.
C24_InputAlsoWritesChanged ==
  /\ [](lastOp = "created" => NewFieldFlags)
  /\ [][BlurEffect]_vars
  /\ [][lastOp' = "input" =>
          /\ flags'.dirty /\ ~flags'.pristine
          /\ OtherFlagsKept({"dirty", "pristine", "changed"})
          /\ impl = "useField" => flags'.changed = flags.changed
          /\ messages' = messages]_vars
C24_Witness ==
  /\ lastOp = "input"
  /\ impl = "provider.js"
  /\ flags.validated /\ flags.touched
  /\ messages # <<>>
  /\ value # initialValue

\* This step is applyResult / patch with the result of run r.
AppliesRun(r) ==
  /\ r \in DOMAIN inflight
  /\ inflight[r].stage = "apply"
  /\ inflight[r].via # "mount"
  /\ r \notin DOMAIN inflight'

\* After the step the field has the errors of run r's result, valid and
\* invalid as that result has them, and validated.
HasResultOf(r) ==
  LET errs == Verify(inflight[r].value) IN
    /\ messages' = errs
    /\ flags'.valid = (errs = <<>>)
    /\ flags'.invalid = ~flags'.valid
    /\ flags'.validated

\* This step is the validate promise of run r resolving.
SettlesRun(r) ==
  /\ r \in DOMAIN inflight
  /\ inflight[r].stage = "run"
  /\ r \notin DOMAIN inflight' \/ inflight'[r].stage = "apply"

MountRunStep(r) ==
  /\ r \in DOMAIN inflight'
       => (inflight'[r].via = "mount" /\ (r \in DOMAIN inflight => inflight[r] # inflight'[r]))
  /\ r \notin DOMAIN inflight' => (r \in DOMAIN inflight /\ inflight[r].via = "mount")

\* This step ends the run r made at mount.
MountRunEnds(r) ==
  /\ r \in DOMAIN inflight
  /\ inflight[r].via = "mount"
  /\ r \notin DOMAIN inflight'

\* passed and failed, which a watcher derives from valid and validated, are
\* what they were.
DerivedFlagsKept == \A k \in DOMAIN flags \cap {"passed", "failed"} : flags'[k] = flags[k]

SyncedOrApplied == lastOp = "applied" \/ (lastOp = "input" /\ impl # "useField")

\* C27: after every value sync and after every applied result, changed is
\* true exactly when the field's value differs from its initial value.
C27_ChangedIffDiffers == SyncedOrApplied => (flags.changed <=> value # initialValue)

\* C29: within one run the rules are invoked one at a time in list order:
\* each at most once, the rule at place k + 1 only when the result of the
\* rule at place k has resolved (the loop stands past every invoked rule),
\* and with bails true none after the first failing rule.
C29_RulesOneAtATimeInOrder ==
  /\ [](RuleListRun =>
          /\ \A j \in DOMAIN invoked : invoked[j] \in Positions
          /\ \A i \in DOMAIN invoked : \A j \in DOMAIN invoked : i < j => invoked[i] < invoked[j]
          /\ pc = "loop" => \A j \in DOMAIN invoked : invoked[j] < idx
          /\ Bails(call.bails) =>
                \A i \in DOMAIN invoked : \A j \in DOMAIN invoked : i < j => ~FailsAt(invoked[i]))
  /\ [][Len(invoked') <= Len(invoked) + 1]_vars
C29_Witness ==
  /\ Settled /\ RuleListRun
  /\ call.bails = "true"
  /\ Len(call.rules) = 3
  /\ invoked = <<1, 2>>
  /\ FailsAt(2) /\ call.rules[3] = "false"
  /\ outcome.status = "resolved"

\* A run of the field is in flight: its validate promise has not resolved.
RunInFlight == \E r \in DOMAIN inflight : inflight[r].stage = "run"

\* C31: the pending flag of a field is true exactly while at least one of its
\* validation runs is in flight.
C31_PendingWhileInFlight == flags.pending <=> RunInFlight

\* This step is the resolution, or the application of the result, of a run r
\* started before the field was last reset.
ResolvesEarlierRun(r) ==
  /\ resetAt > 0
  /\ r <= resetAt
  /\ SettlesRun(r) \/ (r \in DOMAIN inflight /\ r \notin DOMAIN inflight')

\* C32: a run started before a reset does not change the field after the
\* reset: when it resolves, the errors stay empty and validated stays false
\* (they stay what the reset, and the runs started after it, made them).
C32_EarlierRunLeavesResetField ==
  [][\A r \in 1..MaxRuns :
       ResolvesEarlierRun(r) => (messages' = messages /\ flags'.validated = flags.validated)]_vars

\* C33: in every state of a field a non-empty errors list implies invalid and
\* not valid, however silent and applied runs interleave.
C33_ErrorsImplyInvalid == messages # <<>> => (flags.invalid /\ ~flags.valid)

\* This step ends a run: its validate promise resolves, or its result is
\* handled.
CompletesRun(r) ==
  /\ r \in DOMAIN inflight
  /\ IF impl = "provider.js" THEN r \notin DOMAIN inflight'
     ELSE SettlesRun(r) \/ r \notin DOMAIN inflight'

Leaves(c) ==
  /\ provs[c].status \in {"live", "inactive"}
  /\ provs'[c].status \in {"destroyed", "inactive"}
  /\ provs'[c].status # provs[c].status

\* C35: destroying or deactivating a field removes only its own registry
\* entry: every entry of a different live field is still there afterwards,
\* also when the two fields were given the same identifier.
C35_OnlyOwnEntryRemoved ==
  [][\A c \in ProvIds :
       Leaves(c) =>
         \A d \in ProvIds \ {c} : \A k \in IdSpace :
           (provs[d].status = "live" /\ veeRefs[k] = d) => veeRefs'[k] = d]_vars

\* The call that differs from c in that c's function is registered under a
\* name and that name is the only rule.
AsNamedRule(c) == [c EXCEPT !.kind = "string", !.rules = <<c.fn>>]

\* C36: a rule function passed directly as the rule expression and the same
\* function registered and used as the only rule give the same outcome: for
\* the returns true, false, a non-empty string and the empty string both
\* paths agree on valid and, for the string returns, on the error text.
C36_FunctionAndNamedRuleAgree ==
  (Settled /\ IsCallable(call) /\ call.fn \in {"true", "false", "string", "empty"}) =>
    LET named == Validate(AsNamedRule(call)) IN
      /\ outcome.status = named.status
      /\ outcome.valid = named.valid
      /\ call.fn \in {"string", "empty"} => outcome.errors = named.errors

\* C37: validateYupSchema resolves valid = false whenever the schema
\* validator rejects with a ValidationError, also when the rejection carries
\* no inner list.
C37_ValidationErrorIsInvalid ==
  (sPc = "settled" /\ sCall.entry = "yup") =>
    LET r == YupSchemaValidate(sCall, FALSE) IN
      (r.rejected /\ r.name = "ValidationError") => (sOut.status = "resolved" /\ ~sOut.valid)

\* C38: the two schema entry points return results of one shape: an entry
\* for every field of the schema, the valid ones included as valid with no
\* errors, and valid at the top iff every entry is valid.
C38_SameResultShape ==
  (sPc = "settled" /\ sOut.status = "resolved") =>
    /\ DOMAIN sOut.results = Paths
    /\ \A p \in DOMAIN sOut.results :
         sOut.results[p].valid = (sOut.results[p].errors = <<>>)
    /\ sOut.valid = (\A p \in DOMAIN sOut.results : sOut.results[p].valid)

\* This step is validate(a) called on the field: it starts a run.
ValidateCalledWith(a) == started' = started + 1 /\ origins'[started'] = DirectWith(a)

\* C39: validate called with a value argument first makes the argument the
\* field's value and then validates that value, for every argument, the
\* falsy ones (such as the empty string) included.
C39_ArgumentSyncedAndValidated ==
  [][\A a \in FieldValues :
       ValidateCalledWith(a) => (value' = a /\ inflight'[started'].value = a)]_vars

\* The providers of cs that have flag f: all of them, any of them.
AllHave(cs, f) == \A c \in cs : fields[c].flags[f]
AnyHas(cs, f) == \E c \in cs : fields[c].flags[f]

\* C13: for a non-empty set of subscribed providers the observer's pristine,
\* untouched, valid and validated are true iff all providers have the flag,
\* and its dirty, touched, invalid and pending iff any provider has it.
C13_MergeTable ==
  LET cs == {refs[v] : v \in DOMAIN refs}
      ctx == Ctx(refs, fields)
  IN cs # {} =>
       /\ \A f \in {"pristine", "untouched", "valid", "validated"} : ctx.flags[f] = AllHave(cs, f)
       /\ \A f \in {"dirty", "touched", "invalid", "pending"} : ctx.flags[f] = AnyHas(cs, f)
C13_Witness ==
  /\ DOMAIN refs = {1, 2}
  /\ fields[1].flags.valid /\ fields[1].flags.validated
  /\ ~fields[2].flags.valid /\ ~fields[2].flags.validated
  /\ fields[2].flags.dirty /\ ~fields[1].flags.dirty
  /\ ~Ctx(refs, fields).flags["valid"]
  /\ Ctx(refs, fields).flags["dirty"]

\* C14: whenever the observer's ctx is read, its errors are those of exactly
\* the providers subscribed then, and each of its flags is the merge over
\* exactly those providers: a provider that unsubscribed contributes nothing.
C14_AggregateFollowsRegistry ==
  LET ctx == Ctx(refs, fields) IN
  /\ DOMAIN ctx.errors = registered
  /\ \A c \in registered : ctx.errors[c] = fields[c].messages
  /\ registered = {} => DOMAIN ctx.flags = {}
  /\ registered # {} =>
       \A f \in FlagNames :
         ctx.flags[f] = IF f \in {"pristine", "untouched", "valid", "validated"}
                          THEN AllHave(registered, f) ELSE AnyHas(registered, f)
C14_Witness ==
  /\ registered = {1}
  /\ fields[2].flags.invalid /\ fields[2].messages # <<>>
  /\ fields[1].flags.valid
  /\ Ctx(refs, fields).flags["valid"]
  /\ ~Ctx(refs, fields).flags["invalid"]

\* C17: the handler given to ctx.validate().then is called only when the form
\* validation has completed with every provider's result valid; when a result
\* is invalid the handler is not called and the provider, its value still the
\* one that failed, shows the errors of its result.
C17_HandlerOnlyWhenValid ==
  /\ formCall.handlerCalled =>
       /\ formCall.state = "done"
       /\ DOMAIN formCall.results = formCall.at
       /\ \A c \in formCall.at : formCall.results[c] = <<>>
  /\ (lastStep.op = "settled" /\ \E c \in DOMAIN formCall.results : formCall.results[c] # <<>>) =>
       /\ ~formCall.handlerCalled
       /\ \A c \in DOMAIN formCall.results :
            (formCall.results[c] # <<>> /\ Verify(fields[c].value) = formCall.results[c])
              => fields[c].messages = formCall.results[c]

\* C18: the observer's validate() validates every provider subscribed when it
\* is called, each provider's result is applied to that provider when its run
\* resolves, and the call resolves true iff every result is valid.
C18_FormValidate ==
  /\ formCall.state = "done" =>
       /\ DOMAIN formCall.results = formCall.at
       /\ formCall.success = (\A c \in formCall.at : formCall.results[c] = <<>>)
  /\ (lastStep.op = "resolved" /\ lastStep.form) =>
       LET c == lastStep.comp
           errs == lastStep.errors
       IN /\ fields[c].messages = errs
          /\ fields[c].flags.valid = (errs = <<>>)
          /\ fields[c].flags.invalid = (errs # <<>>)
          /\ fields[c].flags.validated
          /\ formCall.results[c] = errs
C18_Witness ==
  /\ formCall.state = "done"
  /\ formCall.at = {1, 2}
  /\ formCall.results[1] = <<>>
  /\ formCall.results[2] # <<>>
  /\ ~formCall.success
  /\ fields[2].messages = formCall.results[2]

\* C15: a provider has no ghost entry in the registry of its context: every
\* entry points at a provider that is not destroyed and whose identifier is
\* the entry's key, and when a provider has re-registered under a changed
\* identifier the entry under the old identifier no longer points at it and
\* the provider is found under the new identifier and under no other.
C15_NoGhostEntry ==
  /\ \A k \in IdSpace : veeRefs[k] # 0 =>
        /\ provs[veeRefs[k]].status # "destroyed"
        /\ provs[veeRefs[k]].id = k
  /\ lastReg.op = "reregistered" =>
        /\ veeRefs[lastReg.old] # lastReg.comp
        /\ veeRefs[lastReg.new] = lastReg.comp
        /\ \A k \in IdSpace \ {lastReg.new} : veeRefs[k] # lastReg.comp

\* C19: validating a field that is not registered, or validating through
\* useValidateForm where no form is provided, resolves valid = true with no
\* errors, a warning has been logged (by the call for the unknown field, by
\* useValidateForm() itself for the missing form), and the state of no field
\* is changed.
C19_MissingTargetDefaults ==
  lastCall.op \in {"unknownField", "noForm"} =>
    /\ lastCall.valid = TRUE
    /\ lastCall.errors = <<>>
    /\ warnings > 0
    /\ lastCall.op = "unknownField" => lastCall.warned
    /\ formFields = lastCall.before

C19_Witness ==
  /\ lastCall.op = "noForm"
  /\ ~hasForm
  /\ warnings = 1
  /\ DOMAIN formFields = FieldNames
  /\ formFields[1].value = ""

\* C21: a provider that is destroyed or deactivated has no entry in the
\* registry of its context, so the observer, which reads its values and
\* errors from the entries, shows none of it; a provider that stays mounted
\* (and shares its identifier with no other) keeps its entry under its
\* identifier.
C21_UnmountedUnregistered ==
  \A c \in ProvIds :
    /\ provs[c].status \in {"destroyed", "inactive"} => \A k \in IdSpace : veeRefs[k] # c
    /\ (provs[c].status = "live" /\ ~provs[c].queued /\ ~clash) => veeRefs[provs[c].id] = c

\* The identifier the field is to be registered under: its vid when one is
\* given, else its name, else the identifier generated for it.
ExpectedId(p) ==
  IF p.given # 0 THEN p.given ELSE IF p.name # 0 THEN NameId(p.name) ELSE p.gen

\* C26: a rendered provider's identifier is its vid when one is given, else
\* its name, else an identifier generated from the counter; no generated
\* identifier belongs to two providers, a provider keeps the one generated
\* for it across its renders, and the counter never decreases.
C26_IdentifierPrecedence ==
  /\ [](\A c \in ProvIds :
          /\ (provs[c].status = "live" /\ ~provs[c].queued) =>
                (provs[c].id # 0 /\ provs[c].id = ExpectedId(provs[c]))
          /\ \A d \in ProvIds \ {c} : provs[c].gen # 0 => provs[c].gen # provs[d].gen)
  /\ [][counter' >= counter]_vars

\* C22: setFieldError, setErrors, setFieldTouched, setTouched and
\* validateField change only the registered fields they name: every other
\* field is as it was before the call, no field is added for a name that is
\* not registered, and the named fields keep their values.
C22_OnlyNamedFieldsChange ==
  lastCall.op \in {"setErrors", "setTouched", "field", "unknownField"} =>
    /\ DOMAIN formFields = DOMAIN lastCall.before
    /\ \A m \in DOMAIN formFields \ lastCall.names : formFields[m] = lastCall.before[m]
    /\ \A m \in DOMAIN formFields : formFields[m].value = lastCall.before[m].value

C22_Witness ==
  /\ lastCall.op = "setErrors"
  /\ lastCall.names = FieldNames
  /\ DOMAIN formFields = {1}
  /\ formFields[1].errors = Wrong
  /\ lastCall.before[1].errors = <<"required">>

\* C30: the rules of one run are all given the same value of the target
\* field, whatever the target's value became while the run was suspended on
\* an earlier rule.
C30_RunSeesOneSnapshot ==
  \A i \in DOMAIN seen : \A j \in DOMAIN seen : seen[i] = seen[j]

\* The burst is over: the delay has passed since its last trigger and no
\* timer is armed.
BurstOver == burst.triggers > 0 /\ quiet >= Delay /\ DOMAIN timers = {}

\* C23: a burst of triggers, each within the delay of the one before, starts
\* exactly one validation run, and starts it after the last trigger; and once
\* the latest run has resolved the field shows that run's result, a run that
\* is no longer the latest not being applied.
C23_BurstStartsOneRun ==
  /\ burst.runs <= 1
  /\ ~burst.early
  /\ BurstOver => burst.runs = 1
  /\ (started >= 2 /\ started \notin DOMAIN inflight /\ applied # 0) => messages = Verify(latestValue)

====
